---- MODULE Spec2Model ----
(***************************************************************************)
(* matscan: scan-result processing and honeypot detection.                 *)
(*                                                                         *)
(* The model follows src/src/processing/minecraft.rs (create_bulk_update,  *)
(* determine_hash), src/src/database/mod.rs (DatabaseSharedData,           *)
(* add_to_bad_ips, connect, collect_all_servers) and                       *)
(* src/src/modes/rescan.rs (get_ranges).                                   *)
(***************************************************************************)
EXTENDS Integers, Sequences, FiniteSets, TLC

(***************************************************************************)
(* Bounds of the model.                                                    *)
(***************************************************************************)
\* ports 1..NumPorts stand for the non-canonical ports, next to CANONICAL_PORT
NumPorts == 3
\* the promotion threshold of create_bulk_update (100 in the source, line 571),
\* scaled so that the threshold is crossed within the ports of the model
PROMOTION_THRESHOLD == 3
\* the capacity of the LRU cache (1048576 in the source, database/mod.rs:73),
\* scaled so that evictions happen within the addresses of the model
LRU_CAPACITY == 1
\* at most MaxDispatch detached add_to_bad_ips tasks are spawned per address
MaxDispatch == 2
\* at most MaxWebhooks detached send_to_webhook tasks are in flight
MaxWebhooks == 1
\* the number of sample entries clean_response_data looks at (100 in the
\* source, minecraft.rs:422)
SAMPLE_LIMIT == 2
\* the 24 hours a snapshot cache entry is served (database/mod.rs:269),
\* counted in steps of the clock
DAY == 2

(***************************************************************************)
(* Program constants.                                                      *)
(***************************************************************************)
CANONICAL_PORT == 25565

\* the IPv4 addresses that are probed
Addrs == {1, 2}
Ports == (1..NumPorts) \cup {CANONICAL_PORT}

\* Option<T> and Result<T>: the empty sequence is None / Err, <<x>> is Some(x) / Ok(x)
None == << >>
Some(x) == << x >>
\* the DatabaseSharedData mutex is held by nobody
Free == "Free"

\* A BSON number: Int32, Int64 or Double.  An Int64 is hi * 2^32 + lo with lo
\* the value of its low 32 bits read as an i32; a number missing from the
\* document is None.
Int32(v) == [bson |-> "i32", hi |-> 0, lo |-> v]
Int64(hi, lo) == [bson |-> "i64", hi |-> hi, lo |-> lo]
Double(v) == [bson |-> "double", hi |-> 0, lo |-> v]

\* a as i32 on an i64: the low 32 bits
as_i32_cast(a) == a.lo

\* database::get_i32 (mod.rs lines 235-243) on doc.get(key)
get_i32(value) ==
    IF value = None THEN None
    ELSE IF value[1].bson = "i32" THEN Some(value[1].lo)
    ELSE IF value[1].bson = "i64" THEN Some(as_i32_cast(value[1]))
    ELSE None

\* Option::unwrap_or_default on an Option<i32>
unwrap_or_default(o) == IF o = None THEN 0 ELSE o[1]

\* The normalized documents a probe can produce ($set.minecraft of the update):
\* description is always present (clean_response_data), version may be
\* missing, players.max may be anything.
Docs ==
    { [description |-> "A", version |-> Some([name |-> "1.20.1", protocol |-> Some(Int32(763))]), max |-> Some(Int32(20))],
      [description |-> "B", version |-> Some([name |-> "1.20.1", protocol |-> Some(Int32(763))]), max |-> Some(Int32(20))],
      [description |-> "A", version |-> None, max |-> Some(Int32(20))] }

\* determine_hash: Err (None) when the version sub-document is missing, else the hash
\* of (description, version name, version protocol, max players).  The hash
\* of DefaultHasher is modelled as the tuple itself (no collisions).
determine_hash(mongo_update) ==
    IF mongo_update.version = None
    THEN None
    ELSE Some(<< mongo_update.description, mongo_update.version[1].name,
                 unwrap_or_default(get_i32(mongo_update.version[1].protocol)),
                 unwrap_or_default(get_i32(mongo_update.max)) >>)

VARIABLES
    ips_with_same_hash, \* LruCache<Ipv4Addr, (CachedIpHash, HashSet<u16>)>: a
                        \* sequence of entries, least recently used first
    bad_ips,            \* DatabaseSharedData.bad_ips
    startup_bad_ips,    \* the addresses loaded by connect() (history)
    bad_servers,        \* the durable bad_servers collection (set of addresses)
    servers,            \* the durable servers collection (set of [ip, port])
    pending,            \* pending upserts returned to the caller, not yet written
    tasks,              \* detached add_to_bad_ips tasks: per address, how many
                        \* are at each position
    lock,               \* holder of the DatabaseSharedData mutex, or Free
    last,               \* the create_bulk_update call of the last step and its
                        \* result (NoCall when the last step was no call)
    dispatched,         \* history: add_to_bad_ips spawns per address
    reached,            \* history: addresses whose count reached the threshold
    diverged,           \* history: addresses for which a divergent hash was seen
    finished,           \* history: addresses with a completed add_to_bad_ips
    window_upserts,     \* history: addresses for which a pending upsert on a
                        \* non-canonical port was returned between the spawn of
                        \* add_to_bad_ips and its in-memory insert
    rescan,             \* the get_ranges task of the rescan mode: position,
                        \* local copy of bad_ips, cursor, ranges collected
    collect,            \* the collect_all_servers call: position and filter
    cached_all_servers, \* DatabaseSharedData.cached_all_servers_*: per filter,
                        \* None or Some(list of stored targets and its age)
    maintenance,        \* position of the delete_spam_historical_players loop
    shared_lock,        \* holder of the SharedData mutex of the processing
                        \* task, or Free
    cached_servers,     \* SharedData.cached_servers: per target, the player
                        \* names of the last response, None when not cached
    webhooks,           \* number of detached send_to_webhook tasks in flight
    args,               \* the call of a pure function that is examined: the
                        \* function and its arguments
    ret,                \* its return value, None before the call returns
    player_maps,        \* per record (_id) of the servers collection, its
                        \* players field: None when the record has none, else
                        \* Some(entries in document order)
    job                 \* delete_spam_historical_players: the documents left
                        \* in its cursor and the document it is working on

modeVars == << rescan, collect, cached_all_servers, maintenance >>
snipeVars == << shared_lock, cached_servers, webhooks >>
fnVars == << args, ret >>
pruneVars == << player_maps, job >>

vars == << ips_with_same_hash, bad_ips, startup_bad_ips, bad_servers, servers,
           pending, tasks, lock, last, dispatched, reached, diverged, finished,
           window_upserts, modeVars, snipeVars, fnVars, pruneVars >>

(***************************************************************************)
(* The LRU cache (crate lru_cache): get_mut moves the entry it finds to    *)
(* the most-recently-used end, insert appends and drops the least recently *)
(* used entry when the capacity is exceeded.                               *)
(***************************************************************************)
\* the position of the entry of ip in the cache, 0 when there is none
IndexOf(cache, ip) ==
    IF \E i \in 1..Len(cache) : cache[i].ip = ip
    THEN CHOOSE i \in 1..Len(cache) : cache[i].ip = ip
    ELSE 0

RemoveAt(cache, i) ==
    [j \in 1..(Len(cache) - 1) |-> IF j < i THEN cache[j] ELSE cache[j + 1]]

\* ips_with_same_hash.get_mut(ip) on a hit at position i, the entry then
\* being overwritten by e
lru_get_mut(cache, i, e) == Append(RemoveAt(cache, i), e)

\* ips_with_same_hash.insert(ip, e) for an ip that has no entry
lru_insert(cache, e) ==
    LET c == Append(cache, e)
    IN  IF Len(c) > LRU_CAPACITY THEN Tail(c) ELSE c

(***************************************************************************)
(* create_bulk_update                                                      *)
(***************************************************************************)
\* mutant of bad_ip_check: the port comparison inverted
bad_ip_check_inverted(bad, ip, port) == ip \in bad /\ port = CANONICAL_PORT

\* line 534: the target is in the bad-address set on a non-canonical port
bad_ip_check(bad, ip, port) == ip \in bad /\ port # CANONICAL_PORT

\* mutant of crossed_threshold: off by one
crossed_threshold_early(count) == count >= PROMOTION_THRESHOLD - 1

\* line 571: the count crossed the promotion threshold
crossed_threshold(count) == count >= PROMOTION_THRESHOLD

\* mutant of update_entry: a disabled count is treated as 0 and counts again
update_entry_recount(e, port, h) ==
    LET n == IF e.count = None THEN 0 ELSE e.count[1]
    IN  IF port \notin e.ports
        THEN IF h = None
             THEN [entry |-> e, is_bad_ip |-> FALSE, failed |-> TRUE]
             ELSE IF h[1] = e.hash
                  THEN [entry |-> [e EXCEPT !.count = Some(n + 1),
                                            !.ports = e.ports \cup {port},
                                            !.responses = @ \cup {<< port, h[1] >>}],
                        is_bad_ip |-> n + 1 >= PROMOTION_THRESHOLD,
                        failed |-> FALSE]
                  ELSE [entry |-> [e EXCEPT !.count = None],
                        is_bad_ip |-> FALSE, failed |-> FALSE]
        ELSE [entry |-> e, is_bad_ip |-> FALSE, failed |-> FALSE]

\* mutant of update_entry: the port is not put into previously_checked_ports
update_entry_noinsert(e, port, h) ==
    IF port \notin e.ports /\ e.count # None
    THEN IF h = None
         THEN [entry |-> e, is_bad_ip |-> FALSE, failed |-> TRUE]
         ELSE IF h[1] = e.hash
              THEN [entry |-> [e EXCEPT !.count = Some(e.count[1] + 1)],
                    is_bad_ip |-> e.count[1] + 1 >= PROMOTION_THRESHOLD,
                    failed |-> FALSE]
              ELSE [entry |-> [e EXCEPT !.count = None],
                    is_bad_ip |-> FALSE, failed |-> FALSE]
    ELSE [entry |-> e, is_bad_ip |-> FALSE, failed |-> FALSE]

\* mutant of update_entry: the hash is compared on every call, seen port or not
update_entry_rehash(e, port, h) ==
    IF e.count # None
    THEN IF h = None
         THEN [entry |-> e, is_bad_ip |-> FALSE, failed |-> TRUE]
         ELSE IF h[1] = e.hash
              THEN [entry |-> [e EXCEPT !.count = IF port \in e.ports THEN @
                                                 ELSE Some(e.count[1] + 1),
                                        !.ports = e.ports \cup {port},
                                        !.responses = @ \cup {<< port, h[1] >>}],
                    is_bad_ip |-> port \notin e.ports
                                  /\ e.count[1] + 1 >= PROMOTION_THRESHOLD,
                    failed |-> FALSE]
              ELSE [entry |-> [e EXCEPT !.count = None],
                    is_bad_ip |-> FALSE, failed |-> FALSE]
    ELSE [entry |-> e, is_bad_ip |-> FALSE, failed |-> FALSE]

\* lines 563-583: an entry exists; the entry after the call and is_bad_ip.
\* h is the result of determine_hash, which is only evaluated (and only
\* fails the call) when the port is unseen and the count is Some.
\* The field responses is history: the (port, hash) pairs of the responses
\* that put a port into previously_checked_ports.
update_entry(e, port, h) ==
    IF port \notin e.ports /\ e.count # None
    THEN IF h = None
         THEN [entry |-> e, is_bad_ip |-> FALSE, failed |-> TRUE]
         ELSE IF h[1] = e.hash
              THEN [entry |-> [e EXCEPT !.count = Some(e.count[1] + 1),
                                        !.ports = e.ports \cup {port},
                                        !.responses = @ \cup {<< port, h[1] >>}],
                    is_bad_ip |-> crossed_threshold(e.count[1] + 1),
                    failed |-> FALSE]
              ELSE [entry |-> [e EXCEPT !.count = None],
                    is_bad_ip |-> FALSE, failed |-> FALSE]
    ELSE [entry |-> e, is_bad_ip |-> FALSE, failed |-> FALSE]

\* lines 585-595: no entry exists
new_entry(ip, port, hash) ==
    [ip |-> ip, count |-> Some(1), hash |-> hash, ports |-> {port},
     responses |-> {<< port, hash >>}]

Err(msg) == [kind |-> "Err", msg |-> msg]
\* mutant of BulkUpdate: the query selects the address alone, on the canonical port
BulkUpdate_canonical(ip, port, mongo_update) ==
    [kind |-> "Ok", query |-> [ip |-> ip, port |-> CANONICAL_PORT],
     update |-> mongo_update, upsert |-> TRUE]

\* lines 603-610
BulkUpdate(ip, port, mongo_update) ==
    [kind |-> "Ok", query |-> [ip |-> ip, port |-> port],
     update |-> mongo_update, upsert |-> TRUE]

\* lines 559-601: the critical section on the cache and what the call returns
hash_section(cache, ip, port, mongo_update) ==
    LET i == IndexOf(cache, ip)
        h == determine_hash(mongo_update)
    IN  IF i # 0
        THEN LET u == update_entry(cache[i], port, h)
             IN  [cache |-> lru_get_mut(cache, i, u.entry),
                  is_bad_ip |-> u.is_bad_ip,
                  result |-> IF u.failed THEN Err("hash")
                             ELSE IF u.is_bad_ip THEN Err("bad ip target")
                             ELSE BulkUpdate(ip, port, mongo_update)]
        ELSE IF h = None
             THEN [cache |-> cache, is_bad_ip |-> FALSE, result |-> Err("hash")]
             ELSE [cache |-> lru_insert(cache, new_entry(ip, port, h[1])),
                   is_bad_ip |-> FALSE,
                   result |-> BulkUpdate(ip, port, mongo_update)]

\* lines 529-611, the whole call
outcome(cache, bad, ip, port, mongo_update) ==
    IF bad_ip_check(bad, ip, port)
    THEN [cache |-> cache, is_bad_ip |-> FALSE, result |-> Err("bad ip")]
    ELSE hash_section(cache, ip, port, mongo_update)

EntryOf(cache, ip) ==
    IF IndexOf(cache, ip) = 0 THEN None ELSE Some(cache[IndexOf(cache, ip)])

NoTasks == [spawned |-> 0, update_one |-> 0, delete_many |-> 0]

\* an add_to_bad_ips task for ip was spawned and has not yet inserted ip
InWindow(ip) == tasks[ip].spawned > 0 /\ ip \notin bad_ips

\* no create_bulk_update call was made in the last step
NoCall ==
    [called |-> FALSE, op |-> "none", ip |-> 1, port |-> CANONICAL_PORT,
     doc |-> CHOOSE d \in Docs : TRUE, spawned |-> FALSE, result |-> Err("none")]

\* The targets that are probed: every port of address 1, and OtherPorts of
\* the other addresses.
OtherPorts == {1, CANONICAL_PORT}
Targets ==
    {t \in Addrs \X Ports : t[1] = 1 \/ t[2] \in OtherPorts}

\* the targets and documents probed where the store is modelled: every port
\* of address 1, all responses with one content hash
StoreTargets == {t \in Targets : t[1] = 1}
StoreDocs == {d \in Docs : d.description = "A" /\ d.version # None}

\* The check of line 534 and the critical section of lines 560-601 are two
\* critical sections; the second one does not read bad_ips and no other
\* operation writes the cache, so the call is one step of the model.
create_bulk_update(ip, port, mongo_update) ==
    LET o == outcome(ips_with_same_hash, bad_ips, ip, port, mongo_update)
        before == EntryOf(ips_with_same_hash, ip)
        after == EntryOf(o.cache, ip)
    IN  /\ lock = Free
        /\ o.is_bad_ip => dispatched[ip] < MaxDispatch
        /\ ips_with_same_hash' = o.cache
        /\ tasks' = IF o.is_bad_ip
                    THEN [tasks EXCEPT ![ip].spawned = @ + 1]
                    ELSE tasks
        /\ dispatched' = IF o.is_bad_ip
                         THEN [dispatched EXCEPT ![ip] = @ + 1]
                         ELSE dispatched
        /\ last' = [called |-> TRUE, op |-> "create_bulk_update", ip |-> ip,
                    port |-> port, doc |-> mongo_update,
                    spawned |-> o.is_bad_ip, result |-> o.result]
        /\ reached' = IF after # None /\ after[1].count # None
                         /\ after[1].count[1] >= PROMOTION_THRESHOLD
                      THEN reached \cup {ip} ELSE reached
        /\ diverged' = IF before # None /\ after # None
                          /\ before[1].count # None /\ after[1].count = None
                       THEN diverged \cup {ip} ELSE diverged
        /\ window_upserts' =
              IF InWindow(ip) /\ port # CANONICAL_PORT /\ o.result.kind = "Ok"
              THEN window_upserts \cup {ip}
              ELSE window_upserts
        /\ lock' = Free
        /\ UNCHANGED << bad_ips, startup_bad_ips, fnVars, pruneVars, bad_servers, servers, finished, modeVars >>

\* process() hands the result to its caller, which is not part of this step
CreateBulkUpdate ==
    \E t \in Targets, mongo_update \in Docs :
        /\ create_bulk_update(t[1], t[2], mongo_update)
        /\ UNCHANGED << pending, snipeVars >>

(***************************************************************************)
(* Database::add_to_bad_ips, spawned detached by create_bulk_update        *)
(***************************************************************************)
\* mutant of lock_after_insert: the guard lives on across the awaits
lock_kept(holder) == holder

\* line 197: the guard of `self.shared.lock()` is a temporary of the
\* statement, dropped before the first await
lock_after_insert(holder) == Free

\* mutant of AddToBadIpsInsert: the in-memory insert is left to a later step
AddToBadIpsInsert_late(addr) ==
    /\ tasks[addr].spawned > 0
    /\ lock = Free
    /\ bad_ips' = bad_ips
    /\ tasks' = [tasks EXCEPT ![addr].spawned = @ - 1, ![addr].update_one = @ + 1]
    /\ lock' = Free
    /\ last' = NoCall
    /\ window_upserts' = window_upserts \ {addr}
    /\ UNCHANGED << ips_with_same_hash, startup_bad_ips, fnVars, pruneVars, bad_servers, servers,
                    pending, dispatched, reached, diverged, finished, modeVars, snipeVars >>

\* line 197: first poll of the task
AddToBadIpsInsert(addr) ==
    /\ tasks[addr].spawned > 0
    /\ lock = Free
    /\ bad_ips' = bad_ips \cup {addr}
    /\ tasks' = [tasks EXCEPT ![addr].spawned = @ - 1, ![addr].update_one = @ + 1]
    /\ lock' = lock_after_insert("add_to_bad_ips")
    /\ last' = NoCall
    /\ window_upserts' = window_upserts \ {addr}
    /\ UNCHANGED << ips_with_same_hash, startup_bad_ips, fnVars, pruneVars, bad_servers, servers,
                    pending, dispatched, reached, diverged, finished, modeVars, snipeVars >>

\* lines 199-212: the upsert into bad_servers; a storage error ends the task
AddToBadIpsUpdateOne(addr) ==
    /\ tasks[addr].update_one > 0
    /\ \E ok \in BOOLEAN :
        IF ok
        THEN /\ bad_servers' = bad_servers \cup {addr}
             /\ tasks' = [tasks EXCEPT ![addr].update_one = @ - 1,
                                       ![addr].delete_many = @ + 1]
        ELSE /\ bad_servers' = bad_servers
             /\ tasks' = [tasks EXCEPT ![addr].update_one = @ - 1]
    /\ last' = NoCall
    /\ UNCHANGED << ips_with_same_hash, bad_ips, startup_bad_ips, fnVars, pruneVars, servers, pending,
                    lock, dispatched, reached, diverged, finished,
                    window_upserts, modeVars, snipeVars >>

\* mutant of cascade_filter: the delete takes the records on every port
cascade_filter_all(addr, r) == r.ip = addr

\* lines 219-222: the filter of the cascade delete
cascade_filter(addr, r) == r.ip = addr /\ r.port # CANONICAL_PORT

\* lines 215-227: the cascade delete; a storage error ends the task
AddToBadIpsDeleteMany(addr) ==
    /\ tasks[addr].delete_many > 0
    /\ tasks' = [tasks EXCEPT ![addr].delete_many = @ - 1]
    /\ \E ok \in BOOLEAN :
        IF ok
        THEN /\ servers' = {r \in servers : ~cascade_filter(addr, r)}
             /\ finished' = finished \cup {addr}
        ELSE /\ servers' = servers
             /\ finished' = finished
    /\ last' = NoCall
    /\ UNCHANGED << ips_with_same_hash, bad_ips, startup_bad_ips, fnVars, pruneVars, bad_servers,
                    pending, lock, dispatched, reached, diverged,
                    window_upserts, modeVars, snipeVars >>

AddToBadIps ==
    \E addr \in Addrs :
        \/ AddToBadIpsInsert(addr)
        \/ AddToBadIpsUpdateOne(addr)
        \/ AddToBadIpsDeleteMany(addr)

(***************************************************************************)
(* modes::rescan::get_ranges                                               *)
(***************************************************************************)
\* the database whose servers collection the probe upserts, the cascade
\* delete and the queries use (servers_coll), and the database named by the
\* delete of get_ranges
SERVERS_DATABASE == "matscan"
RESCAN_DELETE_DATABASE == "server-overflow"

RescanIdle ==
    [pc |-> "idle", copied |-> {}, bad_ips |-> {}, cursor |-> {}, ranges |-> {},
     addr |-> 0]
CollectIdle == [pc |-> "idle", filter |-> "none"]

\* line 56: the guard is a temporary of the let statement, dropped at its end
lock_after_copy(holder) == Free

\* mutant of rescan_remove: the address is removed from the shared set too
rescan_remove_shared(shared, local, addr) ==
    [shared |-> shared \ {addr}, local |-> local \ {addr}]

\* line 109: bad_ips.remove(&addr) acts on the copy made at line 56
rescan_remove(shared, local, addr) ==
    [shared |-> shared, local |-> local \ {addr}]

\* lines 33-56: the filter is built and bad_ips is copied; the aggregate
\* request is then in flight
RescanStart ==
    /\ rescan.pc = "idle"
    /\ lock = Free
    /\ rescan' = [RescanIdle EXCEPT !.pc = "aggregate", !.copied = bad_ips,
                                    !.bad_ips = bad_ips]
    /\ lock' = lock_after_copy("get_ranges")
    /\ last' = NoCall
    /\ UNCHANGED << ips_with_same_hash, bad_ips, startup_bad_ips, fnVars, pruneVars, bad_servers,
                    servers, pending, tasks, dispatched, reached, diverged,
                    finished, window_upserts, collect, cached_all_servers,
                    maintenance, snipeVars >>

\* lines 75-80: the aggregate returns a cursor over the records that match
\* the timestamp filter, or fails and the unwrap panics
RescanAggregate ==
    /\ rescan.pc = "aggregate"
    /\ \/ \E matched \in SUBSET servers :
              rescan' = [rescan EXCEPT !.pc = "cursor", !.cursor = matched]
       \/ rescan' = [rescan EXCEPT !.pc = "panicked"]
    /\ last' = NoCall
    /\ UNCHANGED << ips_with_same_hash, bad_ips, startup_bad_ips, fnVars, pruneVars, bad_servers,
                    servers, pending, tasks, lock, dispatched, reached, diverged,
                    finished, window_upserts, collect, cached_all_servers,
                    maintenance, snipeVars >>

\* lines 82-117: one iteration of the cursor loop up to its next await
RescanNext ==
    /\ rescan.pc = "cursor"
    /\ \E doc \in rescan.cursor :
          rescan' =
              IF doc.ip \in rescan.bad_ips /\ doc.port # CANONICAL_PORT
              THEN [rescan EXCEPT !.pc = "delete_many", !.addr = doc.ip,
                                  !.cursor = @ \ {doc}]
              ELSE [rescan EXCEPT !.addr = doc.ip, !.cursor = @ \ {doc},
                                  !.ranges = @ \cup {doc}]
    /\ last' = NoCall
    /\ UNCHANGED << ips_with_same_hash, bad_ips, startup_bad_ips, fnVars, pruneVars, bad_servers,
                    servers, pending, tasks, lock, dispatched, reached, diverged,
                    finished, window_upserts, collect, cached_all_servers,
                    maintenance, snipeVars >>

\* lines 96-110: the delete returns; on a storage error get_ranges returns Err
RescanDeleteMany ==
    /\ rescan.pc = "delete_many"
    /\ \/ LET r == rescan_remove(bad_ips, rescan.bad_ips, rescan.addr)
          IN  /\ servers' = IF RESCAN_DELETE_DATABASE = SERVERS_DATABASE
                            THEN {d \in servers : ~cascade_filter(rescan.addr, d)}
                            ELSE servers
              /\ bad_ips' = r.shared
              /\ rescan' = [rescan EXCEPT !.pc = "cursor", !.bad_ips = r.local]
       \/ /\ rescan' = RescanIdle
          /\ UNCHANGED << servers, bad_ips >>
    /\ last' = NoCall
    /\ UNCHANGED << ips_with_same_hash, startup_bad_ips, fnVars, pruneVars, bad_servers,
                    pending, tasks, lock, dispatched, reached, diverged,
                    finished, window_upserts, collect, cached_all_servers,
                    maintenance, snipeVars >>

\* lines 82 and 119: the cursor is exhausted or yields an error, and the
\* ranges are returned
RescanReturn ==
    /\ rescan.pc = "cursor"
    /\ rescan' = RescanIdle
    /\ last' = NoCall
    /\ UNCHANGED << ips_with_same_hash, bad_ips, startup_bad_ips, fnVars, pruneVars, bad_servers,
                    servers, pending, tasks, lock, dispatched, reached, diverged,
                    finished, window_upserts, collect, cached_all_servers,
                    maintenance, snipeVars >>

Rescan ==
    \/ RescanStart
    \/ RescanAggregate
    \/ RescanNext
    \/ RescanDeleteMany
    \/ RescanReturn

(***************************************************************************)
(* database::collect_all_servers                                           *)
(***************************************************************************)
Filters == {"Active30d", "New", "Active365d"}

\* lines 266-272, 282-287, 309-315: the guard is a temporary of the if-let
\* statement, dropped at its end, before the filter document is built
lock_after_cache_check(holder) == Free

\* mutant of is_fresh: an entry of exactly 24 hours is still served
is_fresh_inclusive(age) == age <= DAY

\* lines 269, 285, 312: cached_time.elapsed() is less than 24 hours
is_fresh(age) == age < DAY

\* the return of a collect_all_servers call, as the record of the last step:
\* the filter, whether the store was queried, and Ok(list) or Err
Returned(filter, queried, result) ==
    [called |-> FALSE, op |-> "collect_all_servers", filter |-> filter,
     queried |-> queried, result |-> result]

\* lines 264-327: the cache entry of the filter is returned when it is
\* fresh; if not, the find request is then in flight
CollectStart(filter) ==
    /\ collect.pc = "idle"
    /\ lock = Free
    /\ IF cached_all_servers[filter] # None
          /\ is_fresh(cached_all_servers[filter][1].age)
       THEN /\ collect' = CollectIdle
            /\ last' = Returned(filter, FALSE,
                                Some(cached_all_servers[filter][1].servers))
       ELSE /\ collect' = [pc |-> "find", filter |-> filter]
            /\ last' = NoCall
    /\ lock' = lock_after_cache_check("collect_all_servers")
    /\ UNCHANGED << ips_with_same_hash, bad_ips, startup_bad_ips, fnVars, pruneVars, bad_servers,
                    servers, pending, tasks, dispatched, reached, diverged,
                    finished, window_upserts, rescan, cached_all_servers,
                    maintenance, snipeVars >>

\* lines 329-365: the cursor is read to its end and the list is stored in
\* the cache entry of the filter with the current instant; a storage error
\* returns Err
CollectFind ==
    /\ collect.pc = "find"
    /\ \/ /\ lock = Free
          /\ \E found \in SUBSET servers :
                /\ cached_all_servers' =
                      [cached_all_servers EXCEPT ![collect.filter] =
                          Some([servers |-> found, age |-> 0])]
                /\ last' = Returned(collect.filter, TRUE, Some(found))
       \/ /\ UNCHANGED cached_all_servers
          /\ last' = Returned(collect.filter, TRUE, None)
    /\ collect' = CollectIdle
    /\ lock' = lock
    /\ UNCHANGED << ips_with_same_hash, bad_ips, startup_bad_ips, fnVars, pruneVars, bad_servers,
                    servers, pending, tasks, dispatched, reached, diverged,
                    finished, window_upserts, rescan, maintenance, snipeVars >>

\* time passes: every cache entry gets older; ages from 24 hours on are
\* not told apart
Elapse ==
    /\ \E f \in Filters :
          cached_all_servers[f] # None /\ cached_all_servers[f][1].age < DAY
    /\ cached_all_servers' =
          [f \in Filters |->
              IF cached_all_servers[f] = None
              THEN None
              ELSE Some([cached_all_servers[f][1] EXCEPT
                            !.age = IF @ < DAY THEN @ + 1 ELSE @])]
    /\ last' = NoCall
    /\ UNCHANGED << ips_with_same_hash, bad_ips, startup_bad_ips, fnVars, pruneVars, bad_servers,
                    servers, pending, tasks, lock, dispatched, reached, diverged,
                    finished, window_upserts, rescan, collect, maintenance,
                    snipeVars >>

(***************************************************************************)
(* Database::delete_spam_historical_players, run every 4 hours by the loop *)
(* that connect() spawns, on the players of the stored records.            *)
(***************************************************************************)
\* The records of the servers collection that carry players, by _id, and the
\* scaled sizes: records of more than PLAYERS_THRESHOLD (1000) players are
\* trimmed to PLAYERS_KEPT (500)
RecordIds == {1, 2}
PLAYERS_THRESHOLD == 3
PLAYERS_KEPT == 2
JobIdle == [cursor |-> << >>, doc |-> None]

\* lines 127-133: $match players $exists, $project playerCount, $match
\* playerCount $gt 1000; the documents carry _id and players
RECURSIVE aggregate_from(_, _)
aggregate_from(maps, ids) ==
    IF ids = {} THEN << >>
    ELSE LET id == CHOOSE i \in ids : \A j \in ids : i <= j
             rest == aggregate_from(maps, ids \ {id})
         IN  IF maps[id] # None /\ Len(maps[id][1]) > PLAYERS_THRESHOLD
             THEN << [id |-> id, players |-> maps[id][1]] >> \o rest
             ELSE rest
aggregate_players(maps) == aggregate_from(maps, RecordIds)

\* lines 157-169: players.sort_by(lastSeen), a stable sort, oldest first
RECURSIVE insert_sorted(_, _)
insert_sorted(sorted, e) ==
    IF sorted = << >> THEN << e >>
    ELSE IF sorted[Len(sorted)].lastSeen <= e.lastSeen THEN Append(sorted, e)
    ELSE Append(insert_sorted(SubSeq(sorted, 1, Len(sorted) - 1), e),
                sorted[Len(sorted)])
RECURSIVE sort_by_last_seen(_)
sort_by_last_seen(players) ==
    IF players = << >> THEN << >>
    ELSE insert_sorted(sort_by_last_seen(SubSeq(players, 1, Len(players) - 1)),
                       players[Len(players)])
rev(seq) == [i \in 1..Len(seq) |-> seq[Len(seq) + 1 - i]]
take(seq, n) == SubSeq(seq, 1, IF Len(seq) < n THEN Len(seq) ELSE n)

\* mutant of most_recent: the oldest players are kept
most_recent_not_reversed(players) == take(sort_by_last_seen(players), PLAYERS_KEPT)

\* lines 156-175: sort, rev, take(500)
most_recent(players) == take(rev(sort_by_last_seen(players)), PLAYERS_KEPT)

\* update_one {_id} {$set: {players: ...}} on the record: the field is
\* replaced as a whole
set_players(field, players) == Some(players)

\* lines 86-88: the sleep is over
MaintenanceWake ==
    /\ maintenance = "sleeping"
    /\ maintenance' = "aggregate"
    /\ last' = NoCall
    /\ UNCHANGED << ips_with_same_hash, bad_ips, startup_bad_ips, fnVars, pruneVars, bad_servers,
                    servers, pending, tasks, lock, dispatched, reached, diverged,
                    finished, window_upserts, rescan, collect,
                    cached_all_servers, snipeVars >>

\* lines 124-136: the aggregate returns a cursor over the records with more
\* than PLAYERS_THRESHOLD players, each with its players as read, or fails and
\* the expect panics; then the cursor yields its first document, or ends
\* (also on an error of the cursor)
MaintenanceAggregate ==
    /\ maintenance = "aggregate"
    /\ \/ /\ maintenance' = "panicked"
          /\ UNCHANGED job
       \/ \E cursor \in {aggregate_players(player_maps)} :
             \/ /\ cursor # << >>
                /\ maintenance' = "unset"
                /\ job' = [cursor |-> Tail(cursor), doc |-> Some(Head(cursor))]
             \/ /\ maintenance' = "sleeping"
                /\ job' = JobIdle
    /\ last' = NoCall
    /\ UNCHANGED << ips_with_same_hash, bad_ips, startup_bad_ips, fnVars, bad_servers,
                    servers, pending, tasks, lock, dispatched, reached, diverged,
                    finished, window_upserts, rescan, collect,
                    cached_all_servers, snipeVars, player_maps >>

\* lines 137-145: the $unset update returns, or fails and the expect panics
MaintenanceUnset ==
    /\ maintenance = "unset"
    /\ \/ /\ maintenance' = "set"
          /\ player_maps' = [player_maps EXCEPT ![job.doc[1].id] = None]
       \/ /\ maintenance' = "panicked"
          /\ UNCHANGED player_maps
    /\ last' = NoCall
    /\ UNCHANGED << ips_with_same_hash, bad_ips, startup_bad_ips, fnVars, bad_servers,
                    servers, pending, tasks, lock, dispatched, reached, diverged,
                    finished, window_upserts, rescan, collect,
                    cached_all_servers, snipeVars, job >>

\* lines 153-185: the $set update of the most recent players returns and the
\* cursor yields the next record or ends, or the update fails and the expect
\* panics
MaintenanceSet ==
    /\ maintenance = "set"
    /\ \/ /\ player_maps' =
                [player_maps EXCEPT ![job.doc[1].id] =
                    set_players(@, most_recent(job.doc[1].players))]
          /\ \/ /\ job.cursor # << >>
                /\ maintenance' = "unset"
                /\ job' = [cursor |-> Tail(job.cursor),
                           doc |-> Some(Head(job.cursor))]
             \/ /\ maintenance' = "sleeping"
                /\ job' = JobIdle
       \/ /\ maintenance' = "panicked"
          /\ UNCHANGED << player_maps, job >>
    /\ last' = NoCall
    /\ UNCHANGED << ips_with_same_hash, bad_ips, startup_bad_ips, fnVars, bad_servers,
                    servers, pending, tasks, lock, dispatched, reached, diverged,
                    finished, window_upserts, rescan, collect,
                    cached_all_servers, snipeVars >>

Maintenance ==
    \/ MaintenanceWake
    \/ MaintenanceAggregate
    \/ MaintenanceUnset
    \/ MaintenanceSet

(***************************************************************************)
(* clean_response_data: the player sample (lines 406-472).  A string is    *)
(* the sequence of its characters.                                         *)
(***************************************************************************)
Rep(c, n) == [i \in 1..n |-> c]
HexChars == {"0", "1", "2", "3", "4", "5", "6", "7", "8", "9",
             "a", "b", "c", "d", "e", "f"}
ANONYMOUS_PLAYER_NAME == "Anonymous Player"
\* the description of servers that hide their player list (line 414)
PLAYER_LIST_HIDDEN ==
    "To protect the privacy of this server and its\nusers, you must log in once to see ping data."

\* the number of bytes of a character in UTF-8 (of the characters used here)
utf8_width(c) == IF c = "é" THEN 2 ELSE 1

RECURSIVE byte_len(_)
byte_len(str) ==
    IF str = << >> THEN 0 ELSE utf8_width(Head(str)) + byte_len(Tail(str))

\* str.is_char_boundary(k)
is_char_boundary(str, k) ==
    \E n \in 0..Len(str) : byte_len(SubSeq(str, 1, n)) = k

\* line 433: uuid.replace('-', "")
IsNotHyphen(c) == c # "-"
strip_hyphens(str) == SelectSeq(str, IsNotHyphen)

\* lines 435-436: Regex "[0-9a-f]{12}[34][0-9a-f]{19}", is_match: the
\* pattern is searched anywhere in the string
uuid_regex_is_match(str) ==
    \E i \in 1..(Len(str) - 31) :
        /\ \A j \in 0..11 : str[i + j] \in HexChars
        /\ str[i + 12] \in {"3", "4"}
        /\ \A j \in 13..31 : str[i + j] \in HexChars

\* line 445: uuid.chars().all(|c| c == '0')
is_nil(uuid) == \A i \in 1..Len(uuid) : uuid[i] = "0"

\* line 449: uuid.len() >= 12 && uuid[12..].starts_with('4'); slicing at a
\* byte offset inside a character panics
is_uuidv4(uuid) ==
    IF byte_len(uuid) < 12
    THEN Some(FALSE)
    ELSE IF ~is_char_boundary(uuid, 12)
         THEN None
         ELSE LET n == CHOOSE n \in 0..Len(uuid) :
                          byte_len(SubSeq(uuid, 1, n)) = 12
              IN  Some(n < Len(uuid) /\ uuid[n + 1] = "4")

\* lines 406-411: the state of the loop over the sample; status is "ok"
\* while the loop runs, "dropped" after `?` returned None, "panicked" after
\* a panic
NoPlayers ==
    [status |-> "ok", is_online_mode |-> None, mixed_online_mode |-> FALSE,
     fake_sample |-> FALSE, has_players |-> FALSE, players_data |-> {}]

\* lines 450-456: the classification of one identifier
online_mode_step(acc, is_v4) ==
    IF (is_v4 /\ acc.is_online_mode = Some(FALSE))
       \/ (~is_v4 /\ acc.is_online_mode = Some(TRUE))
    THEN [acc EXCEPT !.mixed_online_mode = TRUE]
    ELSE IF acc.is_online_mode = None
         THEN [acc EXCEPT !.is_online_mode = Some(is_v4)]
         ELSE acc

\* mutant of insert_player: the key keeps the hyphens of the identifier
insert_player_raw(players_data, id, uuid, name) ==
    {e \in players_data : e.key # id} \cup {[key |-> id, name |-> name]}

\* line 469: players_data.insert(format!("players.{}", uuid), player_doc),
\* which replaces an entry of the same key
insert_player(players_data, id, uuid, name) ==
    {e \in players_data : e.key # uuid} \cup {[key |-> uuid, name |-> name]}

\* lines 425-471: one iteration of the loop
sample_step(acc, player) ==
    IF acc.status # "ok"
    THEN acc
    ELSE IF player.kind # "object"
    THEN [acc EXCEPT !.status = "dropped"]
    ELSE
        LET id == IF player.id = None THEN << >> ELSE player.id[1]
            uuid == strip_hyphens(id)
            name == IF player.name = None THEN "" ELSE player.name[1]
            flagged == [acc EXCEPT !.fake_sample =
                           @ \/ (~uuid_regex_is_match(uuid)
                                 /\ name # ANONYMOUS_PLAYER_NAME)]
            classify == ~acc.mixed_online_mode /\ ~is_nil(uuid)
            classified == IF classify
                          THEN online_mode_step(flagged, is_uuidv4(uuid)[1])
                          ELSE flagged
        IN  IF classify /\ is_uuidv4(uuid) = None
            THEN [acc EXCEPT !.status = "panicked"]
            ELSE [classified EXCEPT
                     !.players_data = insert_player(@, id, uuid, name),
                     !.has_players = TRUE]

RECURSIVE sample_loop(_, _)
sample_loop(acc, sample) ==
    IF sample = << >>
    THEN acc
    ELSE sample_loop(sample_step(acc, Head(sample)), Tail(sample))

\* lines 416-424: the first SAMPLE_LIMIT entries of players.sample, none
\* when the player list is hidden
scan_sample(description, sample) ==
    IF description = PLAYER_LIST_HIDDEN
    THEN NoPlayers
    ELSE sample_loop(NoPlayers,
                     SubSeq(sample, 1, IF Len(sample) < SAMPLE_LIMIT
                                       THEN Len(sample) ELSE SAMPLE_LIMIT))

\* lines 480-486
online_mode_guess(acc) ==
    IF acc.mixed_online_mode THEN 2
    ELSE IF acc.is_online_mode # None THEN 1
    ELSE 0

\* lines 475-502: what the sample contributes to the document: the guess,
\* the players.<uuid> keys, lastActive and lastEmpty
sample_fields(acc) ==
    [onlineModeGuess |-> online_mode_guess(acc),
     players |-> IF acc.fake_sample THEN {} ELSE acc.players_data,
     lastActive |-> ~acc.fake_sample /\ acc.has_players,
     lastEmpty |-> ~acc.fake_sample /\ ~acc.has_players]

\* the return of a function that may panic: Option<T>, or no return
Returns(value) == [panicked |-> FALSE, value |-> value]
Panics == [panicked |-> TRUE, value |-> None]

(***************************************************************************)
(* forgeData.d: decode_optimized and the mod list read from its bytes.     *)
(* A str is the sequence of its characters' code points, a Vec<u8> a       *)
(* sequence of 0..255, a String read from the bytes the sequence of its    *)
(* UTF-8 bytes.                                                            *)
(***************************************************************************)
\* bitwise or of two naturals
RECURSIVE BitOr(_, _)
BitOr(a, b) ==
    IF a = 0 THEN b
    ELSE IF b = 0 THEN a
    ELSE (IF a % 2 = 1 \/ b % 2 = 1 THEN 1 ELSE 0)
         + 2 * BitOr(a \div 2, b \div 2)

\* the UTF-8 length of a character, and str::len
char_len_utf8(c) ==
    IF c < 128 THEN 1 ELSE IF c < 2048 THEN 2 ELSE IF c < 65536 THEN 3 ELSE 4
RECURSIVE str_len(_)
str_len(encoded) ==
    IF encoded = << >> THEN 0
    ELSE char_len_utf8(Head(encoded)) + str_len(Tail(encoded))

\* lines 245-247
NoBits == [bytes |-> << >>, buffer |-> 0, bits_in_buf |-> 0]

\* bytes.push((buffer & 0xFF) as u8); buffer >>= 8; bits_in_buf -= 8
push_byte(st) ==
    [bytes |-> Append(st.bytes, st.buffer % 256),
     buffer |-> st.buffer \div 256,
     bits_in_buf |-> st.bits_in_buf - 8]

\* lines 251-255: while bits_in_buf >= 8
RECURSIVE flush_buffered(_)
flush_buffered(st) ==
    IF st.bits_in_buf >= 8 THEN flush_buffered(push_byte(st)) ELSE st

\* lines 250-259: for c in chars; buffer is a u32 and holds at most 22 bits
RECURSIVE unpack_chars(_, _)
unpack_chars(chars, st) ==
    IF chars = << >>
    THEN st
    ELSE LET flushed == flush_buffered(st)
         IN  unpack_chars(Tail(chars),
                 [flushed EXCEPT
                     !.buffer = flushed.buffer
                                + (Head(chars) % 32768) * 2^flushed.bits_in_buf,
                     !.bits_in_buf = flushed.bits_in_buf + 15])

\* mutant of within_declared: the last bytes are emitted whatever the
\* declared length
within_declared_always(len, size) == TRUE

\* line 261: bytes.len() < size
within_declared(len, size) == len < size

\* lines 261-265: while bytes.len() < size && bits_in_buf >= 8
RECURSIVE flush_declared(_, _)
flush_declared(st, size) ==
    IF within_declared(Len(st.bytes), size) /\ st.bits_in_buf >= 8
    THEN flush_declared(push_byte(st), size)
    ELSE st

\* lines 236-268
decode_optimized(encoded) ==
    IF str_len(encoded) < 2 \/ Len(encoded) < 2
    THEN None
    ELSE LET size0 == encoded[1]
             size1 == encoded[2]
             size == BitOr(size0, size1 * 32768)
             chars == SubSeq(encoded, 3, Len(encoded))
         IN  Some(flush_declared(unpack_chars(chars, NoBits), size).bytes)

\* what a reader returns: the value and the rest of the slice
Read(val, rest) == Some([val |-> val, rest |-> rest])

\* lines 270-283: at most 5 bytes of 7 bits; the result is a u32, so the
\* fifth byte gives its low 4 bits
RECURSIVE read_varint_from(_, _, _, _)
read_varint_from(bytes, num, shift, round) ==
    IF round = 5 THEN None
    ELSE IF bytes = << >> THEN None
    ELSE LET byte == Head(bytes)
             low == IF shift = 28 THEN byte % 16 ELSE byte % 128
             next == num + low * 2^shift
         IN  IF byte < 128
             THEN Read(next, Tail(bytes))
             ELSE read_varint_from(Tail(bytes), next, shift + 7, round + 1)
read_varint(bytes) == read_varint_from(bytes, 0, 0, 0)

\* std::str::from_utf8(bytes).is_ok()
IsCont(bytes, i, lo, hi) == Len(bytes) >= i /\ bytes[i] >= lo /\ bytes[i] <= hi
RECURSIVE is_utf8(_)
is_utf8(bytes) ==
    IF bytes = << >> THEN TRUE
    ELSE LET b == bytes[1]
             n == IF b < 128 THEN 1
                  ELSE IF b >= 194 /\ b <= 223 /\ IsCont(bytes, 2, 128, 191) THEN 2
                  ELSE IF /\ b >= 224 /\ b <= 239
                          /\ IsCont(bytes, 2, IF b = 224 THEN 160 ELSE 128,
                                              IF b = 237 THEN 159 ELSE 191)
                          /\ IsCont(bytes, 3, 128, 191) THEN 3
                  ELSE IF /\ b >= 240 /\ b <= 244
                          /\ IsCont(bytes, 2, IF b = 240 THEN 144 ELSE 128,
                                              IF b = 244 THEN 143 ELSE 191)
                          /\ IsCont(bytes, 3, 128, 191)
                          /\ IsCont(bytes, 4, 128, 191) THEN 4
                  ELSE 0
         IN  n > 0 /\ is_utf8(SubSeq(bytes, n + 1, Len(bytes)))

\* lines 285-293
read_utf(bytes) ==
    LET len == read_varint(bytes)
    IN  IF len = None THEN None
        ELSE IF Len(len[1].rest) < len[1].val THEN None
        ELSE IF ~is_utf8(SubSeq(len[1].rest, 1, len[1].val)) THEN None
        ELSE Read(SubSeq(len[1].rest, 1, len[1].val),
                  SubSeq(len[1].rest, len[1].val + 1, Len(len[1].rest)))

\* lines 295-299
read_bool(bytes) ==
    IF bytes = << >> THEN None ELSE Read(Head(bytes) # 0, Tail(bytes))

\* lines 301-308: big-endian
read_u16(bytes) ==
    IF Len(bytes) < 2 THEN None
    ELSE Read(bytes[1] * 256 + bytes[2], SubSeq(bytes, 3, Len(bytes)))

\* "IGNORESERVERONLY"
IGNORESERVERONLY ==
    << 73, 71, 78, 79, 82, 69, 83, 69, 82, 86, 69, 82, 79, 78, 76, 89 >>

\* mutant of short_read: the mods read so far are returned
short_read_partial(mods) == Some(mods)

\* the ? of lines 314-333: a reader's None is the function's None
short_read(mods) == None

\* lines 329-334: for _ in 0..channel_size; the rest of the slice, or None
RECURSIVE read_channels(_, _)
read_channels(bytes, channel_size) ==
    IF channel_size = 0 THEN Some(bytes)
    ELSE LET channel_name == read_utf(bytes)
         IN  IF channel_name = None THEN None
             ELSE LET channel_version == read_utf(channel_name[1].rest)
                  IN  IF channel_version = None THEN None
                      ELSE LET required == read_bool(channel_version[1].rest)
                           IN  IF required = None THEN None
                               ELSE read_channels(required[1].rest,
                                                  channel_size - 1)

\* lines 318-340: for _ in 0..mods_size
RECURSIVE read_mods(_, _, _)
read_mods(bytes, mods_size, mods) ==
    IF mods_size = 0 THEN Some(mods)
    ELSE LET channel_size_and_flag == read_varint(bytes)
         IN  IF channel_size_and_flag = None THEN short_read(mods)
             ELSE
             LET channel_size == channel_size_and_flag[1].val \div 2
                 is_ignore_server_only == channel_size_and_flag[1].val % 2 # 0
                 mod_id == read_utf(channel_size_and_flag[1].rest)
             IN  IF mod_id = None THEN short_read(mods)
                 ELSE
                 LET mod_version ==
                         IF is_ignore_server_only
                         THEN Read(IGNORESERVERONLY, mod_id[1].rest)
                         ELSE read_utf(mod_id[1].rest)
                 IN  IF mod_version = None THEN short_read(mods)
                     ELSE
                     LET after == read_channels(mod_version[1].rest, channel_size)
                     IN  IF after = None THEN short_read(mods)
                         ELSE read_mods(after[1], mods_size - 1,
                                  Append(mods, [modId |-> mod_id[1].val,
                                                modmarker |-> mod_version[1].val]))

\* lines 310-345
extract_forge_mods(encoded) ==
    LET decoded_vec == decode_optimized(encoded)
    IN  IF decoded_vec = None THEN None
        ELSE LET truncated == read_bool(decoded_vec[1])
             IN  IF truncated = None THEN short_read(<< >>)
                 ELSE LET mods_size == read_u16(truncated[1].rest)
                      IN  IF mods_size = None THEN short_read(<< >>)
                          ELSE read_mods(mods_size[1].rest, mods_size[1].val,
                                         << >>)

\* lines 371-381: isForge, and the mods attached to forgeData (None when
\* nothing is attached)
forge_fields(data) ==
    [isForge |-> data.modinfo \/ data.forgeData # None,
     mods |-> IF data.forgeData = None THEN None
              ELSE IF data.forgeData[1].kind # "object" THEN None
              ELSE IF data.forgeData[1].d = None THEN None
              ELSE extract_forge_mods(data.forgeData[1].d[1])]

\* lines 349-527: None without a top-level description or when the loop
\* over the sample returned early, else the document
clean_response_data(data) ==
    IF data.description = None
    THEN Returns(None)
    ELSE LET acc == scan_sample(data.description[1], data.sample)
             fields == sample_fields(acc)
         IN  IF acc.status = "panicked" THEN Panics
             ELSE IF acc.status = "dropped" THEN Returns(None)
             ELSE Returns(Some(
                     [description |-> data.description[1],
                      version |-> data.version,
                      max |-> data.max,
                      isForge |-> forge_fields(data).isForge,
                      forgeData |-> data.forgeData,
                      mods |-> forge_fields(data).mods,
                      onlineModeGuess |-> fields.onlineModeGuess,
                      players |-> fields.players,
                      lastActive |-> fields.lastActive,
                      lastEmpty |-> fields.lastEmpty]))

(***************************************************************************)
(* process: the sniper (config.snipe) in front of create_bulk_update, and  *)
(* the detached send_to_webhook tasks                                      *)
(***************************************************************************)
\* SnipeConfig; the anonymous-player alert (anon_players) is switched off
SnipeOff == [enabled |-> FALSE, usernames |-> {}, anon_players |-> FALSE]
SnipeOn == [enabled |-> TRUE, usernames |-> {"Steve"}, anon_players |-> FALSE]

\* The JSON responses that are processed: the description may be missing,
\* the player sample is empty
JsonData ==
    { [description |-> d, version |-> x.version, max |-> x.max,
       modinfo |-> FALSE, forgeData |-> None, sample |-> << >>] :
         d \in {None, Some("A")}, x \in StoreDocs }

\* A response: its bytes parse as JSON or not; if they do, the names of its
\* player sample and its top-level fields
Garbage ==
    [json |-> FALSE, names |-> {},
     data |-> CHOOSE d \in JsonData : d.description = None]
Payloads ==
    {Garbage} \cup
    { [json |-> TRUE, names |-> n, data |-> d] :
         n \in SUBSET {"Steve"}, d \in JsonData }

\* mutant of parses: bytes that are not JSON are processed as an empty value
parses_anything(payload) == TRUE

\* lines 41-47: serde_json::from_str(&data) is Ok
parses(payload) == payload.json

\* the return of a process call that did not reach create_bulk_update, as
\* the record of the last step
Processed(target, payload) ==
    [called |-> FALSE, op |-> "process", target |-> target,
     payload |-> payload, result |-> None]

\* lines 52-73 and 218: the guard of the block is dropped at its end, the
\* guard of line 218 is a temporary of its statement
lock_after_cached_servers(holder) == Free

\* lines 105-125: the watched players that joined and left
joined(config, previous, current) ==
    {u \in current \cap config.usernames : u \notin previous}
left(config, previous, current) ==
    {u \in previous \cap config.usernames : u \notin current}

\* lines 49-218: the names cached for the target are compared with those of
\* the response, one send_to_webhook task is spawned per watched player that
\* joined or left, and the response is cached
snipe(config, target, payload) ==
    LET previous == IF cached_servers[target] = None
                    THEN {} ELSE cached_servers[target][1]
        spawned == Cardinality(joined(config, previous, payload.names))
                   + Cardinality(left(config, previous, payload.names))
    IN  /\ shared_lock = Free
        /\ webhooks + spawned <= MaxWebhooks
        /\ webhooks' = webhooks + spawned
        /\ cached_servers' = [cached_servers EXCEPT ![target] = Some(payload.names)]
        /\ shared_lock' = lock_after_cached_servers("process")

\* lines 31-233; the result goes to the caller
process(config, target, payload) ==
    LET cleaned_data == clean_response_data(payload.data)
    IN  /\ ~cleaned_data.panicked
        /\ IF parses(payload) /\ config.enabled
           THEN snipe(config, target, payload)
           ELSE UNCHANGED snipeVars
        /\ IF parses(payload) /\ cleaned_data.value # None
           THEN create_bulk_update(target[1], target[2], cleaned_data.value[1])
           ELSE /\ last' = Processed(target, payload)
                /\ UNCHANGED << ips_with_same_hash, bad_ips, startup_bad_ips, fnVars, pruneVars,
                                bad_servers, servers, tasks, lock, dispatched,
                                reached, diverged, finished, window_upserts,
                                modeVars >>
        /\ UNCHANGED pending

\* lines 613-634: the POST returns; a failure is printed
SendToWebhook ==
    /\ webhooks > 0
    /\ webhooks' = webhooks - 1
    /\ last' = NoCall
    /\ UNCHANGED << ips_with_same_hash, bad_ips, startup_bad_ips, fnVars, pruneVars, bad_servers,
                    servers, pending, tasks, lock, dispatched, reached, diverged,
                    finished, window_upserts, modeVars, shared_lock,
                    cached_servers >>

(***************************************************************************)
(* Database::connect: the bad-address set is loaded from bad_servers, the  *)
(* cache starts empty.                                                     *)
(***************************************************************************)
InitWith(bad_sets, server_sets) ==
    /\ bad_servers \in bad_sets
    /\ bad_ips = bad_servers
    /\ startup_bad_ips = bad_servers
    /\ ips_with_same_hash = << >>
    /\ servers \in server_sets
    /\ pending = {}
    /\ tasks = [a \in Addrs |-> NoTasks]
    /\ lock = Free
    /\ last = NoCall
    /\ dispatched = [a \in Addrs |-> 0]
    /\ reached = {}
    /\ diverged = {}
    /\ finished = {}
    /\ window_upserts = {}
    /\ rescan = RescanIdle
    /\ collect = CollectIdle
    /\ cached_all_servers = [f \in Filters |-> None]
    /\ maintenance = "aggregate"
    /\ shared_lock = Free
    /\ cached_servers = [t \in Targets |-> None]
    /\ webhooks = 0

\* the players of the stored records, and the pruning job before its first run
InitPlayers(maps) == player_maps \in maps /\ job = JobIdle

\* a record of PLAYERS_THRESHOLD + 1 players and a record without players
StoredPlayers ==
    [id \in RecordIds |->
        IF id = 1
        THEN Some([i \in 1..(PLAYERS_THRESHOLD + 1) |->
                      [key |-> i, lastSeen |-> IF i = 2 THEN 2 ELSE 1]])
        ELSE None]

\* no pure function is examined
NoArgs == [fn |-> "none"]
InitFn(inputs) == args \in inputs /\ ret = None

\* an empty store
Init == InitWith(SUBSET Addrs, {{}}) /\ InitFn({NoArgs})
    /\ InitPlayers({StoredPlayers})

(***************************************************************************)
(* Spec: the decision path.  Probe responses are classified and the        *)
(* detached add_to_bad_ips tasks run up to their in-memory insert; their   *)
(* store requests stay in flight (SpecStore lets them complete).           *)
(***************************************************************************)
Next ==
    \/ CreateBulkUpdate
    \/ \E addr \in Addrs : AddToBadIpsInsert(addr)

Spec == Init /\ [][Next]_vars

(***************************************************************************)
(* SpecStore: one address with its store.  The results of the calls are    *)
(* queued as pending upserts and written in batches, and the detached      *)
(* add_to_bad_ips tasks run to their end.                                  *)
(***************************************************************************)
\* the caller of process() keeps the Some(BulkUpdate) results for the next
\* batched write
enqueue(queue, result) ==
    IF result.kind = "Ok" THEN queue \cup {result.query} ELSE queue

ProcessResponse ==
    \E t \in StoreTargets, mongo_update \in StoreDocs :
        /\ create_bulk_update(t[1], t[2], mongo_update)
        /\ pending' = enqueue(pending, last'.result)
        /\ UNCHANGED snipeVars

\* bulk_update: one unordered command with an upsert per pending update; the
\* updates of `written` succeed, the others fail
BulkWrite ==
    /\ pending # {}
    /\ \E written \in SUBSET pending :
          servers' = servers \cup {[ip |-> q.ip, port |-> q.port] : q \in written}
    /\ pending' = {}
    /\ last' = NoCall
    /\ UNCHANGED << ips_with_same_hash, bad_ips, startup_bad_ips, fnVars, pruneVars, bad_servers,
                    tasks, lock, dispatched, reached, diverged, finished,
                    window_upserts, modeVars, snipeVars >>

NextStore ==
    \/ ProcessResponse
    \/ BulkWrite
    \/ AddToBadIps

SpecStore == Init /\ [][NextStore]_vars

\* tokio polls every spawned task: the first poll of add_to_bad_ips, which
\* waits for nothing but the lock, is eventually run
FairSpecStore ==
    SpecStore /\ \A addr \in Addrs : WF_vars(AddToBadIpsInsert(addr))

(***************************************************************************)
(* SpecModes: probe processing next to the tasks of the scanner: the       *)
(* detached add_to_bad_ips tasks, the range selection of the rescan mode,  *)
(* collect_all_servers and the maintenance loop.                           *)
(***************************************************************************)
\* the probed targets: the ports of address 1 that suffice to cross the
\* promotion threshold
TaskTargets ==
    {t \in StoreTargets : t[2] < PROMOTION_THRESHOLD \/ t[2] = CANONICAL_PORT}
\* the records a store left by an earlier run holds
TaskRecords == {[ip |-> 1, port |-> 1], [ip |-> 1, port |-> CANONICAL_PORT]}
\* the filter of the mode that is run (slash32_all_ports_new)
ModeFilters == {"New"}

\* a store that is empty or left by an earlier run
InitTasks == InitWith(SUBSET {1}, {{}, TaskRecords}) /\ InitFn({NoArgs})
    /\ InitPlayers({StoredPlayers})

Probe ==
    \E t \in TaskTargets, mongo_update \in StoreDocs :
        /\ create_bulk_update(t[1], t[2], mongo_update)
        /\ UNCHANGED << pending, snipeVars >>

CollectAllServers ==
    \/ \E filter \in ModeFilters : CollectStart(filter)
    \/ CollectFind

NextModes ==
    \/ Probe
    \/ AddToBadIps
    \/ Rescan
    \/ CollectAllServers
    \/ Maintenance
    \/ Elapse

SpecModes == InitTasks /\ [][NextModes]_vars

\* the runtime polls the maintenance task, its timer fires and every storage
\* request returns
FairSpecModes == SpecModes /\ WF_vars(Maintenance)

(***************************************************************************)
(* SpecCache: collect_all_servers for the three filters, with the clock.   *)
(***************************************************************************)
NextCache ==
    \/ \E filter \in Filters : CollectStart(filter)
    \/ CollectFind
    \/ Elapse

SpecCache == InitTasks /\ [][NextCache]_vars

(***************************************************************************)
(* SpecLocks: process with the sniper enabled, the detached webhook and    *)
(* add_to_bad_ips tasks, and collect_all_servers.                          *)
(***************************************************************************)
Process ==
    \E t \in TaskTargets, payload \in Payloads : process(SnipeOn, t, payload)

NextLocks ==
    \/ Process
    \/ SendToWebhook
    \/ AddToBadIps
    \/ CollectAllServers
    \/ Elapse

SpecLocks == InitTasks /\ [][NextLocks]_vars

(***************************************************************************)
(* SpecClean: clean_response_data applied to responses with a description  *)
(* and a player sample.                                                    *)
(***************************************************************************)
\* identifiers: version 4, version 3, version 4 with hyphens, nil, version
\* nibble 5, upper case, a valid identifier after one more character, and
\* one with a two-byte character across byte offset 12
ID_V4 == Rep("a", 12) \o << "4" >> \o Rep("b", 19)
ID_V3 == Rep("a", 12) \o << "3" >> \o Rep("b", 19)
ID_V4_HYPHENS ==
    Rep("a", 8) \o << "-" >> \o Rep("a", 4) \o << "-", "4" >> \o Rep("b", 3)
    \o << "-" >> \o Rep("b", 4) \o << "-" >> \o Rep("b", 12)
ID_NIL == Rep("0", 32)
ID_V5 == Rep("a", 12) \o << "5" >> \o Rep("b", 19)
ID_UPPER == Rep("A", 12) \o << "4" >> \o Rep("B", 19)
ID_LONG == << "z" >> \o ID_V3
ID_NON_ASCII == Rep("a", 11) \o << "é", "4" >>
SampleIds ==
    {Some(ID_V4), Some(ID_V3), Some(ID_V4_HYPHENS), Some(ID_NIL), Some(ID_V5),
     Some(ID_UPPER), Some(ID_LONG), Some(ID_NON_ASCII), None}

\* the entries of players.sample: objects with or without id and name, and
\* an entry that is not an object
Player(id, name) == [kind |-> "object", id |-> id, name |-> name]
SampleEntries ==
    {Player(id, Some("Steve")) : id \in SampleIds}
    \cup {Player(id, Some(ANONYMOUS_PLAYER_NAME)) : id \in {Some(ID_NIL), Some(ID_V4), None}}
    \cup {Player(id, None) : id \in {Some(ID_V4), Some(ID_NIL)}}
    \cup {[kind |-> "string", id |-> None, name |-> None]}

RECURSIVE SeqsUpTo(_, _)
SeqsUpTo(S, n) ==
    IF n = 0
    THEN {<< >>}
    ELSE LET shorter == SeqsUpTo(S, n - 1)
         IN  shorter \cup {Append(q, x) : q \in shorter, x \in S}

CleanInputs ==
    { [fn |-> "clean_response_data", cut |-> 0,
       data |-> [description |-> Some(d),
                 version |-> Some([name |-> "1.20.1", protocol |-> Some(Int32(763))]),
                 max |-> Some(Int32(20)), modinfo |-> FALSE, forgeData |-> None,
                 sample |-> sample]] :
         d \in {"A", PLAYER_LIST_HIDDEN},
         sample \in SeqsUpTo(SampleEntries, SAMPLE_LIMIT + 1) }

\* The packing that decode_optimized undoes: a two-character length header,
\* then the bytes filled little-endian into 15-bit characters, the last one
\* padded with zero bits
RECURSIVE pack_bytes(_, _, _)
pack_bytes(bytes, buffer, bits) ==
    IF bits >= 15
    THEN << buffer % 32768 >> \o pack_bytes(bytes, buffer \div 32768, bits - 15)
    ELSE IF bytes = << >>
    THEN IF bits > 0 THEN << buffer >> ELSE << >>
    ELSE pack_bytes(Tail(bytes), buffer + Head(bytes) * 2^bits, bits + 8)
encode_optimized(bytes) ==
    << Len(bytes) % 32768, Len(bytes) \div 32768 >> \o pack_bytes(bytes, 0, 0)

\* A mod list on the wire: the truncated flag, the count 2, a mod "A" of
\* version "1" with one channel (its channelSizeAndFlag 2 a two-byte
\* varint), and a mod "BC" with the ignore-server-only flag
FORGE_WIRE ==
    << 0,  0, 2,
       130, 0,  1, 65,  1, 49,  1, 99,  0,  1,
       1,  2, 66, 67 >>
FORGE_MODS ==
    << [modId |-> << 65 >>, modmarker |-> << 49 >>],
       [modId |-> << 66, 67 >>, modmarker |-> IGNORESERVERONLY] >>

\* forgeData of the responses: absent, not an object, without d, and with d
\* packed from the first cut bytes of the wire
ForgeInputs ==
    {[modinfo |-> m, forgeData |-> None, cut |-> 0] : m \in BOOLEAN}
    \cup {[modinfo |-> FALSE,
           forgeData |-> Some([kind |-> k, d |-> None]), cut |-> 0] :
             k \in {"string", "object"}}
    \cup {[modinfo |-> FALSE,
           forgeData |-> Some([kind |-> "object",
                               d |-> Some(encode_optimized(
                                         SubSeq(FORGE_WIRE, 1, cut)))]),
           cut |-> cut] : cut \in 0..Len(FORGE_WIRE)}
    \cup {[modinfo |-> FALSE,
           forgeData |-> Some([kind |-> "object", d |-> Some(<< 3 >>)]),
           cut |-> 0]}

ForgeCleanInputs ==
    { [fn |-> "clean_response_data", cut |-> f.cut,
       data |-> [description |-> Some("A"),
                 version |-> Some([name |-> "1.20.1", protocol |-> Some(Int32(763))]),
                 max |-> Some(Int32(20)), modinfo |-> f.modinfo, forgeData |-> f.forgeData,
                 sample |-> sample]] :
         f \in ForgeInputs,
         sample \in {<< >>, << Player(Some(ID_V4), Some("Steve")) >>} }

InitClean == InitWith({{}}, {{}}) /\ InitFn(CleanInputs \cup ForgeCleanInputs)
    /\ InitPlayers({StoredPlayers})

\* everything but the examined call
programVars ==
    << ips_with_same_hash, bad_ips, startup_bad_ips, bad_servers, servers,
       pending, tasks, lock, last, dispatched, reached, diverged, finished,
       window_upserts, modeVars, snipeVars, pruneVars >>

CleanResponseData ==
    /\ args.fn = "clean_response_data"
    /\ ret = None
    /\ ret' = Some(clean_response_data(args.data))
    /\ UNCHANGED << args, programVars >>

SpecClean == InitClean /\ [][CleanResponseData]_vars

(***************************************************************************)
(* decode_optimized on its own: on strings over a few characters, and on   *)
(* the packing of byte sequences                                           *)
(***************************************************************************)
MaxChars == 5
MaxBytes == 6

\* characters of the strings: 0 and 1 (the header of a short output), 255,
\* the largest 15-bit character, and one with a bit above the 15
DecodeChars == {0, 1, 255, 32767, 32769}
DecodeBytes == {0, 1, 128, 255}

DecodeInputs ==
    { [fn |-> "decode_optimized", encoded |-> e] :
         e \in SeqsUpTo(DecodeChars, MaxChars) }
RoundTripInputs ==
    { [fn |-> "round_trip", bytes |-> b] :
         b \in SeqsUpTo(DecodeBytes, MaxBytes) }

InitDecode == InitWith({{}}, {{}}) /\ InitFn(DecodeInputs \cup RoundTripInputs)
    /\ InitPlayers({StoredPlayers})

DecodeOptimized ==
    /\ args.fn = "decode_optimized"
    /\ ret = None
    /\ ret' = Some(decode_optimized(args.encoded))
    /\ UNCHANGED << args, programVars >>

\* decode_optimized applied to the packing of the bytes
RoundTrip ==
    /\ args.fn = "round_trip"
    /\ ret = None
    /\ ret' = Some(decode_optimized(encode_optimized(args.bytes)))
    /\ UNCHANGED << args, programVars >>

NextDecode ==
    \/ DecodeOptimized
    \/ RoundTrip

SpecDecode == InitDecode /\ [][NextDecode]_vars

(***************************************************************************)
(* generate_passive_fingerprint.  A JSON object is given by the sequence   *)
(* of its keys in the order of the text (serde_json's Map iterated in      *)
(* insertion order); a string is built as the sequence of its pieces.      *)
(***************************************************************************)
Range(seq) == {seq[i] : i \in 1..Len(seq)}

\* mutant of correct_order: the order of before 23w07a for every protocol
correct_order_old(protocol_version) == << "description", "players", "version" >>

\* lines 656-660: matches!(protocol_version, 1073741943.. | 762..=0x40000000)
correct_order(protocol_version) ==
    IF protocol_version >= 1073741943
       \/ (protocol_version >= 762 /\ protocol_version <= 1073741824)
    THEN << "version", "description", "players" >>
    ELSE << "description", "players", "version" >>
correct_players_order == << "max", "online" >>
correct_version_order == << "name", "protocol" >>

\* keys().filter(|k| correct.contains(k)); of a value that is not an object
\* (None), the default
filter_keys(object, correct) ==
    IF object = None THEN << >>
    ELSE SelectSeq(object[1], LAMBDA k : k \in Range(correct))

\* data.get(key).and_then(as_object)
get_object(data, key) ==
    IF key \in Range(data.keys) THEN data[key] ELSE None

\* lines 641-646: version.protocol as a u64, 0 by default
protocol_version_of(data) ==
    LET version == get_object(data, "version")
    IN  IF version = None \/ "protocol" \notin Range(version[1])
           \/ data.protocol = None
        THEN 0
        ELSE data.protocol[1]

\* keys.join(",")
RECURSIVE join(_)
join(keys) ==
    IF keys = << >> THEN << >>
    ELSE IF Len(keys) = 1 THEN << keys[1] >>
    ELSE << keys[1], "," >> \o join(Tail(keys))

\* lines 699-712: the loop over the keys
RECURSIVE field_order_string(_, _, _)
field_order_string(keys, players_keys, version_keys) ==
    IF keys = << >> THEN << >>
    ELSE LET key == Head(keys)
             nested ==
                 IF key = "players" /\ players_keys # correct_players_order
                 THEN << "(" >> \o join(players_keys) \o << ")" >>
                 ELSE IF key = "version" /\ version_keys # correct_version_order
                 THEN << "(" >> \o join(version_keys) \o << ")" >>
                 ELSE << >>
         IN  << key >> \o nested
             \o (IF Len(keys) # 1 THEN << "," >> ELSE << >>)
             \o field_order_string(Tail(keys), players_keys, version_keys)

\* lines 637-731, for a text that parses as a JSON object
generate_passive_fingerprint(data) ==
    LET order == correct_order(protocol_version_of(data))
        keys == filter_keys(Some(data.keys), order)
        players_keys == filter_keys(get_object(data, "players"),
                                    correct_players_order)
        version_keys == filter_keys(get_object(data, "version"),
                                    correct_version_order)
        incorrect_order == \/ keys # order
                           \/ players_keys # correct_players_order
                           \/ version_keys # correct_version_order
        players == get_object(data, "players")
    IN  [incorrect_order |-> incorrect_order,
         field_order |-> IF incorrect_order
                         THEN Some(field_order_string(keys, players_keys,
                                                      version_keys))
                         ELSE None,
         empty_sample |-> players # None /\ "sample" \in Range(players[1])
                          /\ data.sample = << >>,
         empty_favicon |-> "favicon" \in Range(data.keys) /\ data.favicon = ""]

\* the sequences over S without repetition
RECURSIVE Arrangements(_)
Arrangements(S) ==
    {<< >>} \cup
    UNION { {<< x >> \o q : q \in Arrangements(S \ {x})} : x \in S }

\* the protocol numbers around the two ranges
FingerprintProtocols ==
    {None, Some(0), Some(754), Some(761), Some(762), Some(1073741824),
     Some(1073741825), Some(1073741942), Some(1073741943)}
FingerprintInputs ==
    { [fn |-> "generate_passive_fingerprint",
       data |-> [keys |-> k, players |-> pl, version |-> v, protocol |-> pr,
                 sample |-> << >>, favicon |-> ""]] :
         k \in Arrangements({"description", "players", "version", "favicon"}),
         pl \in {None, Some(<< >>), Some(<< "max", "online" >>),
                 Some(<< "online", "max" >>), Some(<< "max" >>),
                 Some(<< "max", "sample", "online" >>)},
         v \in {None, Some(<< "name", "protocol" >>),
                Some(<< "protocol", "name" >>), Some(<< "name" >>)},
         pr \in FingerprintProtocols }

InitFingerprint == InitWith({{}}, {{}}) /\ InitFn(FingerprintInputs)
    /\ InitPlayers({StoredPlayers})

GeneratePassiveFingerprint ==
    /\ args.fn = "generate_passive_fingerprint"
    /\ ret = None
    /\ ret' = Some(generate_passive_fingerprint(args.data))
    /\ UNCHANGED << args, programVars >>

SpecFingerprint == InitFingerprint /\ [][GeneratePassiveFingerprint]_vars

(***************************************************************************)
(* The pruning job next to the probe upserts that merge players into the   *)
(* stored records.                                                         *)
(***************************************************************************)
MaxPlayers == 5
\* the identifier a probe reports, and the time of its response (later than
\* every stored lastSeen)
PROBE_PLAYER == 0
NOW == 3

\* The store applies {$set: {"players.<uuid>": {lastSeen, name}}} of a probe's
\* upsert (minecraft.rs lines 463-470, 491): the entry is replaced in place,
\* or appended, and a missing players field is created
merge_player(field, key, now) ==
    LET e == [key |-> key, lastSeen |-> now]
    IN  IF field = None THEN Some(<< e >>)
        ELSE IF \E i \in 1..Len(field[1]) : field[1][i].key = key
        THEN Some([i \in 1..Len(field[1]) |->
                      IF field[1][i].key = key THEN e ELSE field[1][i]])
        ELSE Some(Append(field[1], e))

UpsertPlayers ==
    /\ \E id \in RecordIds :
          player_maps' = [player_maps EXCEPT
                             ![id] = merge_player(@, PROBE_PLAYER, NOW)]
    /\ last' = NoCall
    /\ UNCHANGED << ips_with_same_hash, bad_ips, startup_bad_ips, fnVars,
                    bad_servers, servers, pending, tasks, lock, dispatched,
                    reached, diverged, finished, window_upserts, modeVars,
                    snipeVars, job >>

\* the stored players: keys 1..n in document order, seen at time 1 or 2
PlayerMaps ==
    UNION { [1..n -> {1, 2}] : n \in 0..MaxPlayers }
PruneMaps ==
    { [id \in RecordIds |->
          IF id = 1
          THEN Some([i \in 1..Len(m) |-> [key |-> i, lastSeen |-> m[i]]])
          ELSE other] :
        m \in PlayerMaps, other \in {None, StoredPlayers[1]} }

InitPrune ==
    /\ InitWith({{}}, {{}})
    /\ InitFn({NoArgs})
    /\ InitPlayers(PruneMaps)

NextPrune ==
    \/ Maintenance
    \/ UpsertPlayers

SpecPrune == InitPrune /\ [][NextPrune]_vars

(***************************************************************************)
(* CollectionExt::bulk_update (bulk_write.rs): the command it runs.  A     *)
(* document is a function on its keys.                                     *)
(***************************************************************************)
MaxUpdates == 3

\* mutant of push: the entries are put in front
push_front(update_docs, doc) == << doc >> \o update_docs

\* line 88: update_docs.push(doc)
push(update_docs, doc) == Append(update_docs, doc)

\* lines 69-87: the entry of one update; of the options only upsert,
\* collation, arrayFilters and hint are looked at
update_doc(u) ==
    LET doc == [q |-> u.query, u |-> u.update, multi |-> FALSE]
        option(name, key) ==
            IF u.options # None /\ u.options[1][name] # None
            THEN key :> u.options[1][name][1]
            ELSE << >>
    IN  doc @@ option("upsert", "upsert") @@ option("collation", "collation")
            @@ option("array_filters", "arrayFilters") @@ option("hint", "hint")

\* lines 67-89: for u in updates
RECURSIVE update_docs_of(_, _)
update_docs_of(updates, update_docs) ==
    IF updates = << >> THEN update_docs
    ELSE update_docs_of(Tail(updates), push(update_docs, update_doc(Head(updates))))

\* lines 55-100: the commands handed to db.run_command, in order
bulk_update(name, updates, write_concern) ==
    LET command == [update |-> name,
                    updates |-> update_docs_of(updates, << >>),
                    ordered |-> FALSE]
    IN  << IF write_concern # None
           THEN command @@ ("writeConcern" :> write_concern[1])
           ELSE command >>

\* UpdateOptions: what create_bulk_update builds (upsert(true)), and options
\* with other fields set or unset
UpsertOptions ==
    [upsert |-> Some(TRUE), collation |-> None, array_filters |-> None,
     hint |-> None]
BulkOptions ==
    {None, Some(UpsertOptions),
     Some([UpsertOptions EXCEPT !.upsert = None]),
     Some([UpsertOptions EXCEPT !.upsert = Some(FALSE), !.hint = Some("ip_1")])}
BulkUpdates ==
    { [query |-> [ip |-> ip, port |-> CANONICAL_PORT],
       update |-> [description |-> "A"], options |-> o] :
         ip \in Addrs, o \in BulkOptions }
BulkInputs ==
    { [fn |-> "bulk_update", updates |-> u, write_concern |-> w] :
         u \in SeqsUpTo(BulkUpdates, MaxUpdates),
         w \in {None, Some("majority")} }

InitBulk ==
    /\ InitWith({{}}, {{}})
    /\ InitFn(BulkInputs)
    /\ InitPlayers({StoredPlayers})

BulkUpdateCommand ==
    /\ args.fn = "bulk_update"
    /\ ret = None
    /\ ret' = Some(bulk_update("servers", args.updates, args.write_concern))
    /\ UNCHANGED << args, programVars >>

SpecBulk == InitBulk /\ [][BulkUpdateCommand]_vars

(***************************************************************************)
(* TcpFingerprint::parse_signature (net/fingerprint.rs).  A str is the     *)
(* sequence of its characters.                                             *)
(***************************************************************************)
U8_MAX == 255
U16_MAX == 65535
Digits == << "0", "1", "2", "3", "4", "5", "6", "7", "8", "9" >>

\* n.to_string()
RECURSIVE to_string(_)
to_string(n) ==
    IF n < 10 THEN << Digits[n + 1] >>
    ELSE Append(to_string(n \div 10), Digits[(n % 10) + 1])

\* str::split(sep).collect()
RECURSIVE split(_, _)
split(str, sep) ==
    IF \A i \in 1..Len(str) : str[i] # sep
    THEN << str >>
    ELSE LET i == CHOOSE j \in 1..Len(str) :
                     str[j] = sep /\ \A k \in 1..(j - 1) : str[k] # sep
         IN  << SubSeq(str, 1, i - 1) >> \o split(SubSeq(str, i + 1, Len(str)), sep)

starts_with(str, prefix) ==
    Len(str) >= Len(prefix) /\ SubSeq(str, 1, Len(prefix)) = prefix

\* str::parse::<u8>() / ::<u16>(): an optional +, then digits, no overflow;
\* None is the Err that unwrap() turns into a panic
RECURSIVE parse_digits(_, _, _)
parse_digits(str, acc, max) ==
    IF str = << >> THEN Some(acc)
    ELSE IF \A d \in 1..10 : Digits[d] # Head(str) THEN None
    ELSE LET d == (CHOOSE k \in 1..10 : Digits[k] = Head(str)) - 1
         IN  IF acc * 10 + d > max THEN None
             ELSE parse_digits(Tail(str), acc * 10 + d, max)
parse(str, max) ==
    LET digits == IF str # << >> /\ Head(str) = "+" THEN Tail(str) ELSE str
    IN  IF digits = << >> THEN None ELSE parse_digits(digits, 0, max)

MSS_STAR == << "m", "s", "s", "*" >>
MTU_STAR == << "m", "t", "u", "*" >>
STAR == << "*" >>

\* line 29: mss * n on u16: the product when it fits; beyond u16 the build
\* decides: a panic with overflow checks, the low 16 bits without
mul_u16(a, b) ==
    IF a * b <= U16_MAX
    THEN {Some(a * b)}
    ELSE {None, Some((a * b) % (U16_MAX + 1))}

\* lines 26-42: the window size and scaling, None for a panic
window_of(part, mss) ==
    IF starts_with(part, MSS_STAR)
    THEN LET parts == split(SubSeq(part, 5, Len(part)), ",")
             n == parse(parts[1], U16_MAX)
         IN  IF n = None \/ Len(parts) < 2 THEN {None}
             ELSE { IF size = None \/ parse(parts[2], U8_MAX) = None
                    THEN None
                    ELSE Some([size |-> size[1],
                               scaling |-> parse(parts[2], U8_MAX)[1]]) :
                        size \in mul_u16(mss, n[1]) }
    ELSE IF starts_with(part, MTU_STAR) THEN {None}
    ELSE IF part = STAR THEN {Some([size |-> 0, scaling |-> 0])}
    ELSE LET parts == split(part, ",")
         IN  IF parse(parts[1], U16_MAX) = None \/ Len(parts) < 2
                \/ parse(parts[2], U8_MAX) = None
             THEN {None}
             ELSE {Some([size |-> parse(parts[1], U16_MAX)[1],
                         scaling |-> parse(parts[2], U8_MAX)[1]])}

\* lines 44-65: the options of the layout, unknown items skipped
RECURSIVE options_of(_, _, _)
options_of(layout, mss, window_scaling) ==
    IF layout = << >> THEN << >>
    ELSE LET item == Head(layout)
             rest == options_of(Tail(layout), mss, window_scaling)
         IN  IF item = << "n", "o", "p" >> THEN << [kind |-> "nop"] >> \o rest
             ELSE IF item = << "m", "s", "s" >>
             THEN << [kind |-> "mss", val |-> mss] >> \o rest
             ELSE IF item = << "w", "s" >>
             THEN << [kind |-> "wscale", val |-> window_scaling] >> \o rest
             ELSE IF item = << "s", "o", "k" >> THEN << [kind |-> "sack_perm"] >> \o rest
             ELSE IF item = << "t", "s" >>
             THEN << [kind |-> "timestamp", val |-> << 1, 0 >>] >> \o rest
             ELSE rest

\* lines 11-72: the set of results the call can have
parse_signature(sig, mss_arg) ==
    LET parts == split(sig, ":")
    IN  IF Len(parts) # 8 THEN {Panics}
        ELSE IF parts[1] # << "4" >> /\ parts[1] # STAR THEN {Panics}
        ELSE IF parse(parts[2], U8_MAX) = None THEN {Panics}
        ELSE IF parts[4] # STAR /\ parse(parts[4], U16_MAX) = None THEN {Panics}
        ELSE LET initial_ttl == parse(parts[2], U8_MAX)[1]
                 mss == IF parts[4] # STAR
                        THEN parse(parts[4], U16_MAX)[1] ELSE mss_arg
             IN  { IF w = None THEN Panics
                   ELSE Returns([initial_ttl |-> initial_ttl,
                                 window_size |-> w[1].size,
                                 options |-> options_of(split(parts[6], ","),
                                                        mss, w[1].scaling)]) :
                       w \in window_of(parts[5], mss) }

\* a signature from its fields: ver:ttl:olen:mss:wsize,scale:olayout:quirks:pclass
RECURSIVE join_with(_, _)
join_with(parts, sep) ==
    IF Len(parts) = 1 THEN parts[1]
    ELSE parts[1] \o << sep >> \o join_with(Tail(parts), sep)
Signature(mss_field, window) ==
    join_with(<< STAR, to_string(64), to_string(0), mss_field, window,
                 join_with(<< << "m", "s", "s" >>, << "s", "o", "k" >>,
                              << "t", "s" >>, << "n", "o", "p" >>,
                              << "w", "s" >> >>, ","),
                 << "d", "f", ",", "i", "d", "+" >>, to_string(0) >>, ":")

\* line 78: "*:64:0:*:mss*20,10:mss,sok,ts,nop,ws:df,id+:0"
DEFAULT_SIGNATURE ==
    Signature(STAR, MSS_STAR \o to_string(20) \o << "," >> \o to_string(10))

\* the MSS fields (0 for the wildcard) and window specs of the signatures
\* examined; n = 0 marks a window spec that is not mss*N
SignatureMss == {0, 1, 1460, 1500, 65535}
SignatureFactors == {1, 2, 20, 43, 44, 45}
SignatureInputs ==
    { [fn |-> "parse_signature", mss_field |-> m, n |-> n, mss_arg |-> a,
       sig |-> Signature(IF m = 0 THEN STAR ELSE to_string(m),
                         MSS_STAR \o to_string(n) \o << "," >> \o to_string(10))] :
         m \in SignatureMss, n \in SignatureFactors, a \in {1460, 1500} }
    \cup
    { [fn |-> "parse_signature", mss_field |-> 0, n |-> 0, mss_arg |-> 1500,
       sig |-> Signature(STAR, w)] :
         w \in {STAR, to_string(1024) \o << "," >> \o to_string(3),
                MTU_STAR \o to_string(2) \o << "," >> \o to_string(1),
                MSS_STAR \o to_string(20)} }
    \cup {[fn |-> "default", mss_field |-> 0, n |-> 20, mss_arg |-> 1500,
           sig |-> DEFAULT_SIGNATURE]}

InitSignature ==
    /\ InitWith({{}}, {{}})
    /\ InitFn(SignatureInputs)
    /\ InitPlayers({StoredPlayers})

ParseSignature ==
    /\ args.fn = "parse_signature"
    /\ ret = None
    /\ \E result \in parse_signature(args.sig, args.mss_arg) : ret' = Some(result)
    /\ UNCHANGED << args, programVars >>

\* lines 75-80: TcpFingerprint::default()
DefaultFingerprint ==
    /\ args.fn = "default"
    /\ ret = None
    /\ \E result \in parse_signature(DEFAULT_SIGNATURE, 1500) : ret' = Some(result)
    /\ UNCHANGED << args, programVars >>

NextSignature ==
    \/ ParseSignature
    \/ DefaultFingerprint

SpecSignature == InitSignature /\ [][NextSignature]_vars

(***************************************************************************)
(* determine_hash on its own, on pairs of documents                        *)
(***************************************************************************)
\* version.protocol and players.max of a payload: missing, 0, 20,
\* 4294967316 (2^32 + 20, an Int64) and a double
HashNumbers ==
    {None, Some(Int32(0)), Some(Int32(20)), Some(Int64(1, 20)), Some(Double(20))}
HashDocs ==
    { [description |-> d, version |-> v, max |-> m, timestamp |-> t] :
         d \in {"A", "B"},
         v \in {None} \cup { Some([name |-> n, protocol |-> x]) :
                                n \in {"1.20.1", "1.8"}, x \in HashNumbers },
         m \in HashNumbers,
         t \in {1, 2} }
HashInputs ==
    { [fn |-> "determine_hash", a |-> a, b |-> b] : a \in HashDocs, b \in HashDocs }

InitHash == InitWith({{}}, {{}}) /\ InitFn(HashInputs)
    /\ InitPlayers({StoredPlayers})

\* the hashes of the two documents
DetermineHash ==
    /\ args.fn = "determine_hash"
    /\ ret = None
    /\ ret' = Some(<< determine_hash(args.a), determine_hash(args.b) >>)
    /\ UNCHANGED << args, programVars >>

SpecHash == InitHash /\ [][DetermineHash]_vars

(***************************************************************************)
(* Claims about the decision path (checked under Spec)                     *)
(***************************************************************************)
\* the entry of address a, as an Option
Entry(a) == EntryOf(ips_with_same_hash, a)
\* the step is a create_bulk_update call (last' describes it)
Called == last'.called
\* the call of the step needs the content hash: no entry, or an entry with
\* count Some and the port not yet evaluated
NeedsHash(ip, port) ==
    \/ Entry(ip) = None
    \/ Entry(ip)[1].count # None /\ port \notin Entry(ip)[1].ports
\* the call of the step brings the count of its address to the threshold or beyond
Crosses(ip, port, doc) ==
    /\ Entry(ip) # None
    /\ Entry(ip)[1].count # None
    /\ port \notin Entry(ip)[1].ports
    /\ determine_hash(doc) = Some(Entry(ip)[1].hash)
    /\ Entry(ip)[1].count[1] + 1 >= PROMOTION_THRESHOLD
\* at least one add_to_bad_ips task of the address has made its in-memory insert
Inserted(a) == dispatched[a] > tasks[a].spawned

\* C1 (as claimed): promotion of an address is dispatched exactly once, by the
\* call that brings the count to the threshold, and by no later call for the
\* address (unseen port, seen port or port 25565).
C1_PromotedExactlyOnce == \A a \in Addrs : dispatched[a] <= 1

\* C2: an address that was not loaded at startup is in the bad-address set, or
\* has an add_to_bad_ips task dispatched, only if the count of its entry
\* reached the threshold earlier; below the threshold nothing is dispatched.
C2_PromotedOnlyAtThreshold ==
    \A a \in Addrs :
        (a \in bad_ips \ startup_bad_ips \/ dispatched[a] > 0) => a \in reached

C2_Witness ==
    \E a \in Addrs :
        /\ a \in bad_ips \ startup_bad_ips
        /\ a \in reached
        /\ Entry(a) # None
        /\ Entry(a)[1].count = Some(PROMOTION_THRESHOLD)

\* C3 (as claimed): once a divergent hash was seen for an address, the count of
\* the address is None in every later state.
C3_NoneForever ==
    \A a \in diverged : Entry(a) # None => Entry(a)[1].count = None

\* C3 (amended): a divergent response on a not yet evaluated port (of a call
\* that is not rejected for a bad address) sets the count to None; while the
\* entry stays in the cache the entry stays as it is, with count None, and
\* no promotion is dispatched for the address; the entry leaves the cache only
\* by eviction, when a call for another address inserts a new entry.
C3_NoneWhileCached ==
    [][\A a \in Addrs :
          LET e == Entry(a)
              f == EntryOf(ips_with_same_hash', a)
          IN  /\ ( /\ Called /\ last'.ip = a
                   /\ ~(a \in bad_ips /\ last'.port # CANONICAL_PORT)
                   /\ e # None /\ e[1].count # None
                   /\ last'.port \notin e[1].ports
                   /\ determine_hash(last'.doc) # None
                   /\ determine_hash(last'.doc) # Some(e[1].hash) )
                 => (f # None /\ f[1].count = None)
              /\ (e # None /\ e[1].count = None)
                 => /\ f # None => f[1] = e[1]
                    /\ f = None => (Called /\ last'.ip # a /\ last'.result.kind = "Ok")
                    /\ dispatched'[a] = dispatched[a]
                    /\ tasks'[a].spawned <= tasks[a].spawned
      ]_vars

C3_Witness ==
    \E a \in diverged :
        /\ Entry(a) # None
        /\ Entry(a)[1].count = None
        /\ last.called /\ last.ip = a
        /\ last.port \notin Entry(a)[1].ports
        /\ determine_hash(last.doc) = Some(Entry(a)[1].hash)
        /\ last.result.kind = "Ok"

\* C4: a call for a target whose address is in the bad-address set and whose
\* port is not 25565 is rejected, and leaves the cache (its order included),
\* the bad-address set and the promotion tasks unchanged.
C4_BadIpRejected ==
    [][(Called /\ last'.ip \in bad_ips /\ last'.port # CANONICAL_PORT)
          => /\ last'.result = [kind |-> "Err", msg |-> "bad ip"]
             /\ ~last'.spawned
             /\ ips_with_same_hash' = ips_with_same_hash
             /\ bad_ips' = bad_ips
             /\ tasks' = tasks
             /\ dispatched' = dispatched
      ]_vars

C4_Witness ==
    /\ last.called
    /\ last.ip \in bad_ips
    /\ last.port # CANONICAL_PORT
    /\ last.result.kind = "Err"
    /\ Entry(last.ip) # None
    /\ Entry(last.ip)[1].count # None
    /\ last.port \notin Entry(last.ip)[1].ports

\* C5 (as claimed): every call for a target that is not (bad address and
\* non-canonical port) returns the pending upsert {query: address and port,
\* update: the document, upsert: true}.
C5_AlwaysUpsert ==
    [][(Called /\ ~(last'.ip \in bad_ips /\ last'.port # CANONICAL_PORT))
          => /\ last'.result.kind = "Ok"
             /\ last'.result.query = [ip |-> last'.ip, port |-> last'.port]
             /\ last'.result.update = last'.doc
             /\ last'.result.upsert = TRUE
      ]_vars

\* C5 (amended): such a call returns that pending upsert unless the content
\* hash is needed and the document has no version sub-document, or the call
\* brings the count to the threshold (it dispatches the promotion); in these
\* two cases it returns an error and no upsert.
C5_UpsertUnlessHashErrorOrPromotion ==
    [][(Called /\ ~(last'.ip \in bad_ips /\ last'.port # CANONICAL_PORT))
          => LET hash_error == NeedsHash(last'.ip, last'.port)
                                /\ determine_hash(last'.doc) = None
                 promotion == Crosses(last'.ip, last'.port, last'.doc)
             IN  /\ (~hash_error /\ ~promotion)
                    => /\ last'.result.kind = "Ok"
                       /\ last'.result.query = [ip |-> last'.ip, port |-> last'.port]
                       /\ last'.result.update = last'.doc
                       /\ last'.result.upsert = TRUE
                 /\ (hash_error \/ promotion) => last'.result.kind = "Err"
                 /\ promotion <=> last'.spawned
      ]_vars

C5_Witness ==
    /\ last.called
    /\ last.result.kind = "Ok"
    /\ last.result.query = [ip |-> last.ip, port |-> last.port]
    /\ last.port # CANONICAL_PORT
    /\ Entry(last.ip) # None
    /\ Entry(last.ip)[1].count = None
    /\ last.port \notin Entry(last.ip)[1].ports

\* C7: an entry whose count is Some(n) has n equal to the number of ports in
\* its seen-ports set, and every port of the set was put there by a response
\* whose hash is the hash of the entry.
C7_CountIsSeenPorts ==
    \A i \in 1..Len(ips_with_same_hash) :
        LET e == ips_with_same_hash[i]
        IN  e.count # None
            => /\ e.count[1] = Cardinality(e.ports)
               /\ e.ports = {r[1] : r \in e.responses}
               /\ \A r \in e.responses : r[2] = e.hash

C7_Witness ==
    \E i \in 1..Len(ips_with_same_hash) :
        LET e == ips_with_same_hash[i]
        IN  /\ e.count = Some(2)
            /\ Cardinality(e.ports) = 2
            /\ last.called /\ last.ip = e.ip /\ last.port \in e.ports
            /\ determine_hash(last.doc) # Some(e.hash)
            /\ determine_hash(last.doc) # None

\* C8 (as claimed): between the call that dispatches the promotion and the
\* in-memory insert, at most one further call for the address on a
\* non-canonical port returns a pending upsert.
C8_AtMostOneUpsertInWindow ==
    [][~( /\ Called
          /\ InWindow(last'.ip)
          /\ last'.port # CANONICAL_PORT
          /\ last'.result.kind = "Ok"
          /\ last'.ip \in window_upserts )
      ]_vars

\* C8 (amended): before the insert, every call on an already evaluated port
\* returns a pending upsert, however many were returned before; once an
\* add_to_bad_ips task of the address has made its insert, every call for the
\* address on a non-canonical port is rejected.
C8_RejectedAfterInsert ==
    [][Called
          => /\ (Inserted(last'.ip) /\ last'.port # CANONICAL_PORT)
                => last'.result = [kind |-> "Err", msg |-> "bad ip"]
             /\ ( /\ InWindow(last'.ip)
                  /\ Entry(last'.ip) # None
                  /\ last'.port \in Entry(last'.ip)[1].ports )
                => last'.result.kind = "Ok"
      ]_vars

C8_Witness ==
    /\ last.called
    /\ Inserted(last.ip)
    /\ last.ip \in bad_ips \ startup_bad_ips
    /\ last.port # CANONICAL_PORT
    /\ last.result = [kind |-> "Err", msg |-> "bad ip"]
    /\ Entry(last.ip) # None
    /\ last.port \in Entry(last.ip)[1].ports

(***************************************************************************)
(* Claims about the store (checked under FairSpecStore)                    *)
(***************************************************************************)
NonCanonicalRecords(a) == {r \in servers : r.ip = a /\ r.port # CANONICAL_PORT}

\* C9 as stated: once the promotion of an address has finished and no upsert
\* of that address is pending, the store holds no record of the address on a
\* non-canonical port.
C9_NoRecordAfterPromotion ==
    \A a \in Addrs :
        (a \in finished /\ tasks[a] = NoTasks /\ {q \in pending : q.ip = a} = {})
            => NonCanonicalRecords(a) = {}

\* C9 (amended): a dispatched promotion eventually adds the address to the
\* in-memory set, and does so on its first step; it reaches the cascade
\* delete only with the address in the in-memory set and in bad_servers; a
\* delete step leaves the store as it is (storage error) or removes exactly
\* the records of the address stored at that moment on ports other than
\* 25565, and right after a successful delete no such record is stored.
C9_CascadeDeletesStoredRecords ==
    /\ [][\A a \in Addrs :
            /\ tasks'[a].spawned < tasks[a].spawned => a \in bad_ips'
            /\ tasks'[a].delete_many > tasks[a].delete_many
                  => a \in bad_ips' /\ a \in bad_servers'
            /\ tasks'[a].delete_many < tasks[a].delete_many
                  => /\ a \in bad_ips /\ a \in bad_servers
                     /\ servers' \in {servers, servers \ NonCanonicalRecords(a)}
                     /\ (a \notin finished /\ a \in finished')
                           => servers' = servers \ NonCanonicalRecords(a)]_vars
    /\ \A a \in Addrs : (tasks[a].spawned > 0) ~> (a \in bad_ips)

\* a finished promotion of an address that still has its record on 25565 and
\* no other record
C9_Witness ==
    \E a \in finished :
        /\ a \notin startup_bad_ips
        /\ a \in bad_ips /\ a \in bad_servers
        /\ tasks[a] = NoTasks
        /\ [ip |-> a, port |-> CANONICAL_PORT] \in servers
        /\ NonCanonicalRecords(a) = {}

(***************************************************************************)
(* Claims about the tasks of the scanner (SpecModes, SpecLocks)            *)
(***************************************************************************)
\* C6: membership of the in-memory bad-address set is monotonic: no step of
\* create_bulk_update, add_to_bad_ips, get_ranges, collect_all_servers or
\* the maintenance loop removes an address from bad_ips.
C6_BadIpsMonotonic == [][bad_ips \subseteq bad_ips']_vars

\* get_ranges has removed an address from its copy of bad_ips, and the
\* address is still in the shared set
C6_Witness ==
    /\ rescan.pc = "cursor"
    /\ \E a \in rescan.copied \ rescan.bad_ips : a \in bad_ips

\* the tasks that have a store request or a webhook delivery in flight
InFlight ==
    {"add_to_bad_ips" : a \in {b \in Addrs : tasks[b].update_one > 0
                                              \/ tasks[b].delete_many > 0}}
    \cup {"get_ranges" : x \in {rescan.pc} \cap {"aggregate", "delete_many"}}
    \cup {"collect_all_servers" : x \in {collect.pc} \cap {"find"}}
    \cup {"delete_spam_historical_players" :
             x \in {maintenance} \cap {"aggregate", "unset", "set"}}
    \cup {"send_to_webhook" : x \in {n \in {webhooks} : n > 0}}

C11_AttemptedInfinitelyOften == []<>(maintenance = "aggregate")

(***************************************************************************)
(* Claims about the snapshot caches (checked under SpecCache)              *)
(***************************************************************************)
\* the last step was the return of a collect_all_servers call
CollectReturned == last'.op = "collect_all_servers"

\* C12: for each filter, a call returns the cached list without a query
\* exactly when the filter has an entry less than 24 hours old; if not, it
\* queries the store; a successful query replaces the entry of that filter
\* by the fresh list captured now and leaves the entries of the other
\* filters as they are, and a failed query leaves every entry as it is.
C12_CacheServedWhileFresh ==
    [][/\ \A f \in Filters :
            LET entry == cached_all_servers[f]
                fresh == entry # None /\ entry[1].age < DAY
            IN  /\ (CollectReturned /\ ~last'.queried /\ last'.filter = f)
                      => /\ fresh
                         /\ last'.result = Some(entry[1].servers)
                         /\ cached_all_servers' = cached_all_servers
                /\ (collect.pc = "idle" /\ collect'.pc = "find"
                        /\ collect'.filter = f)
                      => /\ ~fresh
                         /\ cached_all_servers' = cached_all_servers
                /\ (CollectReturned /\ last'.queried /\ last'.filter = f
                        /\ last'.result # None)
                      => /\ cached_all_servers'[f] =
                                Some([servers |-> last'.result[1], age |-> 0])
                         /\ \A g \in Filters \ {f} :
                                cached_all_servers'[g] = cached_all_servers[g]
       /\ (CollectReturned /\ last'.queried /\ last'.result = None)
             => cached_all_servers' = cached_all_servers]_vars

\* a stale entry has just been replaced by a different list while another
\* filter keeps an entry that is a day old
C12_Witness ==
    /\ last.op = "collect_all_servers"
    /\ last.queried /\ last.result # None
    /\ cached_all_servers[last.filter][1].servers # {}
    /\ \E g \in Filters \ {last.filter} :
          /\ cached_all_servers[g] # None
          /\ cached_all_servers[g][1].age = DAY
          /\ cached_all_servers[g][1].servers # cached_all_servers[last.filter][1].servers

(***************************************************************************)
(* Claims about process (checked under SpecLocks)                          *)
(***************************************************************************)
\* C13: a response that is not JSON, or that is JSON without a top-level
\* description, yields no pending update (process returns None) and leaves
\* the content-hash cache and the bad-address set unchanged; a response that
\* is not JSON leaves the previous-response cache unchanged as well, and
\* spawns no webhook.
C13_NoRecordNoChange ==
    [][last'.op = "process"
          => /\ ~last'.payload.json \/ last'.payload.data.description = None
             /\ last'.result = None
             /\ pending' = pending
             /\ ips_with_same_hash' = ips_with_same_hash
             /\ bad_ips' = bad_ips
             /\ tasks' = tasks
             /\ ~last'.payload.json
                   => cached_servers' = cached_servers /\ webhooks' = webhooks]_vars

\* a JSON response without description has been processed: the sniper
\* cached it, the content-hash cache kept its entry
C13_Witness ==
    /\ last.op = "process"
    /\ last.payload.json
    /\ cached_servers[last.target] = Some({"Steve"})
    /\ ips_with_same_hash # << >>

\* C26: a create_bulk_update call for an address that has a cache entry
\* leaves the entry's count, hash and seen ports unchanged whenever the port
\* is already among the seen ports or the count is None, whatever the hash of
\* the response; and a call that fails because the content hash cannot be
\* computed leaves every entry unchanged and creates none.
C26_NoChangeOnSeenPortOrNone ==
    [][Called =>
          LET e == Entry(last'.ip)
          IN  /\ (e # None /\ (last'.port \in e[1].ports \/ e[1].count = None))
                 => EntryOf(ips_with_same_hash', last'.ip) = e
              /\ last'.result = Err("hash")
                 => \A a \in Addrs : EntryOf(ips_with_same_hash', a) = Entry(a)
      ]_vars

\* a response with another hash on a port already seen, the count in place
C26_Witness ==
    /\ last.called
    /\ last.result.kind = "Ok"
    /\ Entry(last.ip) # None
    /\ Entry(last.ip)[1].count = Some(2)
    /\ last.port \in Entry(last.ip)[1].ports
    /\ determine_hash(last.doc) # None
    /\ determine_hash(last.doc) # Some(Entry(last.ip)[1].hash)

(***************************************************************************)
(* Claims about clean_response_data (checked under SpecClean)              *)
(***************************************************************************)
\* the call has returned a document
Produced == ret # None /\ ~ret[1].panicked /\ ret[1].value # None
Document == ret[1].value[1]

\* the sample entries the function looks at: the first SAMPLE_LIMIT ones,
\* none when the description is the privacy sentinel
Inspected ==
    IF args.data.description = Some(PLAYER_LIST_HIDDEN)
    THEN << >>
    ELSE SubSeq(args.data.sample, 1,
                IF Len(args.data.sample) < SAMPLE_LIMIT
                THEN Len(args.data.sample) ELSE SAMPLE_LIMIT)
IdOf(e) == strip_hyphens(IF e.id = None THEN << >> ELSE e.id[1])
NameOf(e) == IF e.name = None THEN "" ELSE e.name[1]
AllZero(e) == \A i \in 1..Len(IdOf(e)) : IdOf(e)[i] = "0"
Thirteenth(e) == IF Len(IdOf(e)) >= 13 THEN IdOf(e)[13] ELSE ""
\* 32 hexadecimal digits with version nibble 3 or 4
Canonical(e) ==
    /\ Len(IdOf(e)) = 32
    /\ \A i \in 1..32 : IdOf(e)[i] \in HexChars
    /\ IdOf(e)[13] \in {"3", "4"}

\* C14 as stated: for every response with a description, whatever its player
\* sample holds, clean_response_data returns a document.
C14_AlwaysDocument == ret # None => Produced

\* C15 as stated: onlineModeGuess is 2 if both an authenticated (13th
\* character 4) and an unauthenticated (13th character 3) identifier appear
\* among the inspected entries with a non-all-zero identifier, 1 if only
\* authenticated ones appear, and 0 if only unauthenticated ones appear or
\* none was classified.
C15_OnlineModeGuess ==
    Produced =>
        LET classified == {i \in 1..Len(Inspected) : ~AllZero(Inspected[i])}
            auth == \E i \in classified : Thirteenth(Inspected[i]) = "4"
            unauth == \E i \in classified : Thirteenth(Inspected[i]) = "3"
        IN  Document.onlineModeGuess =
                IF auth /\ unauth THEN 2 ELSE IF auth THEN 1 ELSE 0

\* the fake-sample flag, as the document shows it: neither lastActive nor
\* lastEmpty is written
FakeSample == ~Document.lastActive /\ ~Document.lastEmpty

\* C16 as stated: the fake-sample flag is set exactly when some inspected
\* entry has a non-all-zero identifier, a name other than "Anonymous Player"
\* and an identifier that is not canonical; an entry with an all-zero
\* identifier never sets the flag.
C16_FakeSampleFlag ==
    Produced =>
        (FakeSample <=>
            \E i \in 1..Len(Inspected) :
                /\ ~AllZero(Inspected[i])
                /\ NameOf(Inspected[i]) # ANONYMOUS_PLAYER_NAME
                /\ ~Canonical(Inspected[i]))

\* C17: in a produced document, if the fake-sample flag is unset there is
\* one players.<identifier> entry per distinct identifier (hyphens
\* stripped) of the inspected entries, and exactly one of lastActive and
\* lastEmpty, lastActive iff an entry was inspected; if the flag is set
\* there is no players.<identifier> entry, no lastActive and no lastEmpty.
C17_PlayerMapAndActivity ==
    Produced =>
        LET fake == \E i \in 1..Len(Inspected) :
                        /\ ~uuid_regex_is_match(IdOf(Inspected[i]))
                        /\ NameOf(Inspected[i]) # ANONYMOUS_PLAYER_NAME
            ids == {IdOf(Inspected[i]) : i \in 1..Len(Inspected)}
        IN  IF fake
            THEN /\ Document.players = {}
                 /\ ~Document.lastActive /\ ~Document.lastEmpty
            ELSE /\ {e.key : e \in Document.players} = ids
                 /\ Cardinality(Document.players) = Cardinality(ids)
                 /\ Document.lastActive = (Inspected # << >>)
                 /\ Document.lastEmpty = (Inspected = << >>)

\* a document with two player entries, one of them from an identifier with
\* hyphens, and lastActive
C17_Witness ==
    /\ Produced
    /\ Cardinality(Document.players) = 2
    /\ \E e \in Document.players : e.key = ID_V4
    /\ \E i \in 1..Len(Inspected) : Inspected[i].id = Some(ID_V4_HYPHENS)
    /\ Document.lastActive

\* the call under examination has a forgeData object with a packed d
HasPackedMods ==
    /\ args.data.forgeData # None
    /\ args.data.forgeData[1].d # None
    /\ Len(args.data.forgeData[1].d[1]) >= 2

\* C18: the decoding of the mod list is all or nothing: when d holds only
\* the first cut bytes of the wire (some read runs past the decoded bytes)
\* no mods are attached, never a prefix of the list; the forge data is as
\* received and the document is produced with isForge set; the whole wire
\* gives the whole list.
C18_ModsAllOrNothing ==
    (ret # None /\ HasPackedMods) =>
        /\ Produced
        /\ Document.isForge
        /\ Document.forgeData = args.data.forgeData
        /\ Document.mods = IF args.cut < Len(FORGE_WIRE)
                           THEN None ELSE Some(FORGE_MODS)

\* a document produced from a wire cut after its first mod
C18_Witness ==
    /\ Produced
    /\ HasPackedMods
    /\ args.cut = 13
    /\ Document.isForge
    /\ Document.mods = None

(***************************************************************************)
(* Claims about decode_optimized (checked under SpecDecode)                *)
(***************************************************************************)
\* C19 as stated: for every string of at least two characters,
\* decode_optimized returns at most as many bytes as the length its two
\* header characters declare (low15 | high15 << 15).
C19_AtMostDeclaredLength ==
    (ret # None /\ args.fn = "decode_optimized" /\ Len(args.encoded) >= 2) =>
        /\ ret[1] # None
        /\ Len(ret[1][1]) <= BitOr(args.encoded[1], args.encoded[2] * 32768)

\* C20: round trip of the bit-packing: decode_optimized applied to the
\* packing of a byte sequence (of length 0, 1, 2 and longer) returns exactly
\* the bytes.
C20_RoundTrip ==
    (ret # None /\ args.fn = "round_trip") => ret[1] = Some(args.bytes)

\* the round trip of a sequence of MaxBytes bytes with high bits set
C20_Witness ==
    /\ args.fn = "round_trip"
    /\ Len(args.bytes) = MaxBytes
    /\ args.bytes[2] = 255 /\ args.bytes[MaxBytes] = 128
    /\ ret = Some(Some(args.bytes))

(***************************************************************************)
(* Claims about determine_hash (checked under SpecHash)                    *)
(***************************************************************************)
\* C21 as stated: the hashes of two documents (both with a version) are
\* equal exactly when the documents agree on description, version name,
\* version protocol and max players, each number present or absent, whatever
\* their other fields.
C21_HashOfFourFields ==
    (ret # None /\ args.fn = "determine_hash"
        /\ args.a.version # None /\ args.b.version # None) =>
        ((ret[1][1] = ret[1][2]) <=>
            /\ args.a.description = args.b.description
            /\ args.a.version = args.b.version
            /\ args.a.max = args.b.max)

(***************************************************************************)
(* Claims about generate_passive_fingerprint (under SpecFingerprint)       *)
(***************************************************************************)
\* the keys of the examined object among the three, in their order, and the
\* nested keys (none when the sub-object is missing or not an object)
TopKeys ==
    SelectSeq(args.data.keys,
              LAMBDA k : k \in {"description", "players", "version"})
SubObject(key) ==
    IF key \in Range(args.data.keys) THEN args.data[key] ELSE None
NestedKeys(key, wanted) ==
    IF SubObject(key) = None THEN << >>
    ELSE SelectSeq(SubObject(key)[1], LAMBDA k : k \in wanted)
Protocol ==
    IF NestedKeys("version", {"protocol"}) = << >> \/ args.data.protocol = None
    THEN 0 ELSE args.data.protocol[1]
\* a field-order string without its parenthesised annotations
RECURSIVE StripNested(_, _)
StripNested(str, inside) ==
    IF str = << >> THEN << >>
    ELSE IF Head(str) = "(" THEN StripNested(Tail(str), TRUE)
    ELSE IF Head(str) = ")" THEN StripNested(Tail(str), FALSE)
    ELSE IF inside THEN StripNested(Tail(str), TRUE)
    ELSE << Head(str) >> \o StripNested(Tail(str), FALSE)

\* C22: incorrect_order is true exactly when the top-level keys
\* description/players/version, in their actual order, differ from the
\* order expected for the protocol ([version, description, players] in
\* 762..=0x40000000 and from 1073741943 on, else [description, players,
\* version]) or the nested keys of players / version differ from
\* [max, online] / [name, protocol]; field_order is present iff
\* incorrect_order, and then lists the actual top-level keys in order.
C22_IncorrectOrder ==
    ret # None =>
        LET reordered == Protocol >= 762
                         /\ (Protocol <= 1073741824 \/ Protocol >= 1073741943)
            expected == IF reordered
                        THEN << "version", "description", "players" >>
                        ELSE << "description", "players", "version" >>
            differs == \/ TopKeys # expected
                       \/ NestedKeys("players", {"max", "online"})
                              # << "max", "online" >>
                       \/ NestedKeys("version", {"name", "protocol"})
                              # << "name", "protocol" >>
        IN  /\ ret[1].incorrect_order = differs
            /\ (ret[1].field_order # None) = differs
            /\ differs => StripNested(ret[1].field_order[1], FALSE) = join(TopKeys)

\* protocol 754 with the top-level order players, version, description
C22_Witness ==
    /\ ret # None
    /\ args.data.protocol = Some(754)
    /\ args.data.keys = << "players", "version", "description" >>
    /\ args.data.players = Some(<< "max", "online" >>)
    /\ args.data.version = Some(<< "name", "protocol" >>)
    /\ ret[1].incorrect_order
    /\ ret[1].field_order = Some(<< "players", ",", "version", ",", "description" >>)

(***************************************************************************)
(* Claims about the pruning job (checked under SpecPrune)                  *)
(***************************************************************************)
Entries(field) == IF field = None THEN {} ELSE Range(field[1])
\* the job's $set update succeeds in this step
SetDone == maintenance = "set" /\ maintenance' \in {"unset", "sleeping"}
\* a step of the job
JobStep == maintenance' # maintenance

C28_ProbeEntriesSurvive ==
    [][/\ SetDone =>
             \A e \in Entries(player_maps[job.doc[1].id]) :
                 e.key = PROBE_PLAYER => e \in Entries(player_maps'[job.doc[1].id])
       /\ (maintenance = "set" /\ maintenance' = "panicked") =>
             player_maps'[job.doc[1].id] # None
    ]_vars

(***************************************************************************)
(* Claims about bulk_update (checked under SpecBulk)                       *)
(***************************************************************************)
\* C24: a call of bulk_update runs exactly one command; its updates array
\* has one entry per update of the input, in the order of the input, each
\* with the update's query and update, multi = false, and an upsert key
\* only when the update's options specify one; the command is ordered =
\* false.
C24_OneUnorderedCommand ==
    ret # None =>
        /\ Len(ret[1]) = 1
        /\ ret[1][1].ordered = FALSE
        /\ Len(ret[1][1].updates) = Len(args.updates)
        /\ \A i \in 1..Len(args.updates) :
              LET entry == ret[1][1].updates[i]
                  u == args.updates[i]
                  specified == u.options # None /\ u.options[1].upsert # None
              IN  /\ entry.q = u.query
                  /\ entry.u = u.update
                  /\ entry.multi = FALSE
                  /\ ("upsert" \in DOMAIN entry) = specified
                  /\ specified => entry.upsert = u.options[1].upsert[1]

\* three updates of different addresses and options in one command
C24_Witness ==
    /\ ret # None
    /\ Len(args.updates) = MaxUpdates
    /\ args.updates[1].query.ip # args.updates[2].query.ip
    /\ args.updates[1].options = None
    /\ args.updates[2].options = Some(UpsertOptions)
    /\ "upsert" \notin DOMAIN ret[1][1].updates[1]
    /\ ret[1][1].updates[2].upsert = TRUE

(***************************************************************************)
(* Claims about parse_signature (checked under SpecSignature)              *)
(***************************************************************************)
\* C25 as stated: for a window spec mss*N,scale the template's window size
\* is N times the effective MSS (the MSS field unless it is the wildcard,
\* else the fallback argument), for every N and MSS that are 16-bit values;
\* the default gives TTL 64 and window 30000.
C25_WindowIsMultipleOfMss ==
    (ret # None /\ args.n # 0) =>
        LET mss == IF args.mss_field = 0 THEN args.mss_arg ELSE args.mss_field
        IN  /\ ~ret[1].panicked
            /\ ret[1].value.window_size = args.n * mss
            /\ args.fn = "default" =>
                  /\ ret[1].value.initial_ttl = 64
                  /\ ret[1].value.window_size = 30000


(***************************************************************************)
(* SpecRescan: get_ranges over a store that holds several records of a     *)
(* bad address.                                                            *)
(***************************************************************************)
\* the stored records: address 1 on two non-canonical ports and on the
\* canonical port, address 2 on one port
RescanRecords ==
    {[ip |-> 1, port |-> 1], [ip |-> 1, port |-> 2],
     [ip |-> 1, port |-> CANONICAL_PORT], [ip |-> 2, port |-> 1]}

\* address 1 is in the bad-address set, alone or with address 2
InitRescan ==
    /\ InitWith({{1}, {1, 2}}, {RescanRecords})
    /\ InitFn({NoArgs})
    /\ InitPlayers({StoredPlayers})

SpecRescan == InitRescan /\ [][Rescan]_vars

\* C27: the ranges get_ranges collects hold no record whose address was in
\* the bad-address set when it was copied and whose port is not 25565
C27_NoBadTargetSelected ==
    \A range \in rescan.ranges :
        ~(range.ip \in rescan.copied /\ range.port # CANONICAL_PORT)


(***************************************************************************)
(* MinecraftFingerprinting::process (minecraft_fingerprinting.rs) and the  *)
(* query of create_bulk_update.  A document is a function on its keys, a   *)
(* str is the sequence of its characters.                                  *)
(***************************************************************************)
\* the Ipv4Addr of a model address
Ipv4Addr(a) == << 10, 0, 0, a >>

\* Ipv4Addr::to_string(): the dotted decimal string
ip_to_string(ip) ==
    join_with(<< to_string(ip[1]), to_string(ip[2]), to_string(ip[3]),
                 to_string(ip[4]) >>, ".")

\* u32::from(Ipv4Addr): the four octets, big-endian
u32_from(ip) == ((ip[1] * 256 + ip[2]) * 256 + ip[3]) * 256 + ip[4]

PacketLoginInStart ==
    << "P", "a", "c", "k", "e", "t", "L", "o", "g", "i", "n", "I", "n", "S",
       "t", "a", "r", "t" >>
ServerboundHelloPacket ==
    << "S", "e", "r", "v", "e", "r", "b", "o", "u", "n", "d", "H", "e", "l",
       "l", "o", "P", "a", "c", "k", "e", "t" >>
CLASS_PREFIX == << "c", "l", "a", "s", "s", "_" >>

\* lines 46-75: the server type of a response.  Of the bytes the code reads
\* the first capture group of VANILLA_ERROR_REGEX (captures), whether the
\* lossy string contains "Forge", whether the bytes start with 03 03 80 02
\* and whether there are none
server_type_of(data) ==
    IF data.captures # None
    THEN LET packet_name == data.captures[1]
         IN  IF packet_name = PacketLoginInStart THEN "Paper"
             ELSE IF packet_name = ServerboundHelloPacket THEN "Forge"
             ELSE IF starts_with(packet_name, CLASS_PREFIX) THEN "Fabric"
             ELSE IF Len(packet_name) >= 2 /\ Len(packet_name) <= 3
                  THEN "Vanilla"
             ELSE "Unknown"
    ELSE IF data.contains_forge THEN "Forge"
    ELSE IF data.starts_with_node THEN "NodeMinecraftProtocol"
    ELSE IF data.is_empty THEN "Empty"
    ELSE "Unknown"

\* lines 100-112: impl Display for ServerType
display(server_type) ==
    CASE server_type = "Vanilla" -> "vanilla"
      [] server_type = "Fabric" -> "fabric"
      [] server_type = "Forge" -> "forge"
      [] server_type = "Paper" -> "paper"
      [] server_type = "NodeMinecraftProtocol" -> "node_minecraft_protocol"
      [] server_type = "Empty" -> "empty"
      [] server_type = "Unknown" -> "unknown"

\* lines 90-93: the query of the active fingerprinting update
active_query(target) ==
    [addr |-> [eq |-> u32_from(Ipv4Addr(target[1]))],
     port |-> [eq |-> target[2]]]

\* lines 79-96: the BulkUpdate process returns
active_process(target, data, now) ==
    LET server_type == server_type_of(data)
        timestamp == "fingerprint.active.timestamp" :> now
        mongo_update ==
            IF server_type # "Unknown"
            THEN timestamp @@ ("fingerprint.active.software" :> display(server_type))
            ELSE timestamp
    IN  Some([query |-> active_query(target),
              update |-> [set |-> mongo_update],
              options |-> None])

\* minecraft.rs lines 603-610: the query and options of the upsert that
\* create_bulk_update returns
upsert_query(target) ==
    [ip |-> [eq |-> ip_to_string(Ipv4Addr(target[1]))],
     port |-> [eq |-> target[2]]]

\* the record an upsert inserts when its query matches none: the fields its
\* query compares for equality, then the fields of the update
upserted(query, set) == set @@ [key \in DOMAIN query |-> query[key].eq]

\* a query of $eq comparisons selects the records that hold every compared
\* field with the compared value
selects(query, record) ==
    \A key \in DOMAIN query :
        key \in DOMAIN record /\ record[key] = query[key].eq

\* the responses: with a capture of the error pattern, with "Forge", with
\* the node-minecraft-protocol prefix, empty, and any other
ActiveData ==
    { [captures |-> Some(name), contains_forge |-> f, starts_with_node |-> FALSE,
       is_empty |-> FALSE] :
          name \in {PacketLoginInStart, ServerboundHelloPacket,
                    CLASS_PREFIX \o << "1" >>, << "a" >>, << "a", "b" >>,
                    << "a", "b", "c" >>, << "a", "b", "c", "d" >>},
          f \in BOOLEAN }
    \cup { [captures |-> None, contains_forge |-> f, starts_with_node |-> n,
            is_empty |-> FALSE] : f \in BOOLEAN, n \in BOOLEAN }
    \cup { [captures |-> None, contains_forge |-> FALSE,
            starts_with_node |-> FALSE, is_empty |-> TRUE] }

ActiveInputs ==
    { [fn |-> "active_process", target |-> t, data |-> d, now |-> NOW] :
         t \in Targets, d \in ActiveData }

\* the store holds records and the cache and the bad-address set are loaded
InitActive ==
    /\ InitWith({{2}}, {TaskRecords})
    /\ InitFn(ActiveInputs)
    /\ InitPlayers({StoredPlayers})

ActiveProcess ==
    /\ args.fn = "active_process"
    /\ ret = None
    /\ ret' = active_process(args.target, args.data, args.now)
    /\ UNCHANGED << args, programVars >>

SpecActive == InitActive /\ [][ActiveProcess]_vars

\* C29: the update of active fingerprinting selects the record that the
\* upsert of create_bulk_update for the same target inserts, always sets
\* fingerprint.active.timestamp, sets fingerprint.active.software exactly
\* when the server type is not Unknown, and carries no options (no upsert)
C29_UpdatesTheUpsertedRecord ==
    ret # None =>
        LET update == ret[1]
            record == upserted(upsert_query(args.target), [timestamp |-> args.now])
        IN  /\ selects(update.query, record)
            /\ "fingerprint.active.timestamp" \in DOMAIN update.update.set
            /\ ("fingerprint.active.software" \in DOMAIN update.update.set)
                  <=> (server_type_of(args.data) # "Unknown")
            /\ update.options = None


(***************************************************************************)
(* SpecAnon: process with the sniper and its anonymous-player alert        *)
(* (config.snipe.anon_players).  The names of a sample are kept as the     *)
(* sequence the response holds, and cached_servers keeps that sequence.    *)
(***************************************************************************)
MaxNames == 2
\* line 156: current_anon_players_count >= 8
ANON_LIMIT == 8
\* lines 162 and 172: online_players < 25
ONLINE_LIMIT == 25

SnipeAnon == [enabled |-> TRUE, usernames |-> {"Steve"}, anon_players |-> TRUE]

\* lines 96-103: iter().filter(|&p| p == ANONYMOUS_PLAYER_NAME).count()
anon_players_count(usernames) ==
    Cardinality({i \in 1..Len(usernames) : usernames[i] = ANONYMOUS_PLAYER_NAME})

\* Vec::contains
contains(usernames, name) == \E i \in 1..Len(usernames) : usernames[i] = name

\* a - b in usize: the difference; when b exceeds a, a panic where overflow
\* checks are on, else the difference modulo 2^64, kept as the amount
\* (value) it lies below 2^64
usize_sub(a, b) ==
    IF a >= b
    THEN {[panicked |-> FALSE, wrapped |-> FALSE, value |-> a - b]}
    ELSE {[panicked |-> TRUE, wrapped |-> FALSE, value |-> 0],
          [panicked |-> FALSE, wrapped |-> TRUE, value |-> b - a]}

\* new_anon_players >= 2, for a difference that did not panic
at_least_two(difference) == difference.wrapped \/ difference.value >= 2

\* line 158: version_name.contains("1.20.4"), on the version names of the
\* responses
version_matches(version_name) == version_name \in {"1.20.4", "Paper 1.20.4"}

\* lines 105-126: one send_to_webhook task per entry of a watched player
\* that joined or left
joined_and_left(config, previous, current) ==
    Cardinality({i \in 1..Len(current) :
                    current[i] \in config.usernames /\ ~contains(previous, current[i])})
    + Cardinality({i \in 1..Len(previous) :
                    previous[i] \in config.usernames /\ ~contains(current, previous[i])})

\* lines 146-215: the tasks the anonymous-player alert spawns, for a
\* difference that did not panic
anon_alert(previous, current, difference, version_name, online_players) ==
    LET previous_anon_players_count == anon_players_count(previous)
        current_anon_players_count == anon_players_count(current)
        meets_new_anon_player_req ==
            /\ previous # << >>
            /\ current_anon_players_count > previous_anon_players_count
            /\ at_least_two(difference)
        every_online_player_is_anon ==
            \A i \in 1..Len(current) : current[i] = ANONYMOUS_PLAYER_NAME
        too_many_anon_players ==
            current_anon_players_count >= ANON_LIMIT /\ every_online_player_is_anon
    IN  IF /\ meets_new_anon_player_req
           /\ version_matches(version_name)
           /\ online_players < ONLINE_LIMIT
           /\ ~too_many_anon_players
        THEN 1
        ELSE IF /\ version_matches(version_name)
                /\ previous_anon_players_count = 0
                /\ current_anon_players_count > 0
                /\ online_players < ONLINE_LIMIT
        THEN 1
        ELSE 0

\* the responses: a sample of watched and anonymous players, the version
\* name and players.online
AnonData(names, version_name) ==
    [description |-> Some("A"),
     version |-> Some([name |-> version_name, protocol |-> Some(Int32(763))]),
     max |-> Some(Int32(20)), modinfo |-> FALSE, forgeData |-> None,
     sample |-> [i \in 1..Len(names) |->
                    Player(Some(IF names[i] = ANONYMOUS_PLAYER_NAME
                                THEN ID_NIL ELSE ID_V4), Some(names[i]))]]
AnonPayloads ==
    { [json |-> TRUE, names |-> names, online |-> online,
       data |-> AnonData(names, version_name)] :
         names \in SeqsUpTo({ANONYMOUS_PLAYER_NAME, "Steve"}, MaxNames),
         online \in {1, ONLINE_LIMIT},
         version_name \in {"1.20.1", "1.20.4"} }

\* the record of a process call that panicked at line 144
Underflowed(target, payload) ==
    [called |-> FALSE, op |-> "panic", target |-> target, payload |-> payload,
     result |-> None]

\* lines 31-233 with config.snipe.enabled and config.snipe.anon_players: the
\* names cached for the target are compared with those of the response,
\* the difference of the anonymous counts is taken, the alert tasks are
\* spawned, the response is cached and the update is built
process_anon(config, target, payload) ==
    LET previous == IF cached_servers[target] = None
                    THEN << >> ELSE cached_servers[target][1]
        current == payload.names
        cleaned_data == clean_response_data(payload.data)
    IN  /\ shared_lock = Free
        /\ ~cleaned_data.panicked
        /\ \E difference \in usize_sub(anon_players_count(current),
                                       anon_players_count(previous)) :
              IF difference.panicked
              THEN /\ webhooks + joined_and_left(config, previous, current)
                         <= MaxWebhooks
                   /\ webhooks' = webhooks + joined_and_left(config, previous, current)
                   /\ last' = Underflowed(target, payload)
                   /\ UNCHANGED << ips_with_same_hash, bad_ips, startup_bad_ips,
                                   fnVars, pruneVars, bad_servers, servers,
                                   pending, tasks, lock, dispatched, reached,
                                   diverged, finished, window_upserts, modeVars,
                                   shared_lock, cached_servers >>
              ELSE LET spawned ==
                           joined_and_left(config, previous, current)
                           + anon_alert(previous, current, difference,
                                        payload.data.version[1].name,
                                        payload.online)
                   IN  /\ webhooks + spawned <= MaxWebhooks
                       /\ webhooks' = webhooks + spawned
                       /\ cached_servers' =
                              [cached_servers EXCEPT ![target] = Some(current)]
                       /\ shared_lock' = lock_after_cached_servers("process")
                       /\ IF cleaned_data.value # None
                          THEN create_bulk_update(target[1], target[2],
                                                  cleaned_data.value[1])
                          ELSE /\ last' = Processed(target, payload)
                               /\ UNCHANGED << ips_with_same_hash, bad_ips,
                                               startup_bad_ips, fnVars, pruneVars,
                                               bad_servers, servers, tasks, lock,
                                               dispatched, reached, diverged,
                                               finished, window_upserts,
                                               modeVars >>
                       /\ UNCHANGED pending

\* the probed target
AnonTargets == {<< 1, CANONICAL_PORT >>}

\* a panic ends the processing thread
ProcessAnon ==
    /\ last.op # "panic"
    /\ \E t \in AnonTargets, payload \in AnonPayloads :
          process_anon(SnipeAnon, t, payload)

NextAnon ==
    \/ ProcessAnon
    \/ SendToWebhook

SpecAnon == InitTasks /\ [][NextAnon]_vars

\* C30: with the sniper and the anonymous-player alert on, a process call
\* does not panic on the difference of the anonymous counts, whatever the
\* cached and the current sample, and replaces the cached response of the
\* target by the current one
C30_NoUnderflow ==
    [][\A t \in AnonTargets, payload \in AnonPayloads :
          process_anon(SnipeAnon, t, payload)
             => /\ last'.op # "panic"
                /\ cached_servers'[t] = Some(payload.names)]_vars

====
